---- MODULE Spec2Model ----
(***************************************************************************)
(* Model of the NBO subscribers pipeline: the worker pools and their       *)
(* queues (utils/worker_pool.py, pipelines/worker_pools.py), the run       *)
(* orchestrator (main.py), the pipeline state manager (db/state.py,        *)
(* db/models.py), the dedup cache (cache/memory_cache.py) and the          *)
(* scheduler (scheduler.py).                                               *)
(*                                                                         *)
(* Tasks are asyncio coroutines: a task runs without interruption from one *)
(* suspending await to the next, so every action below is the code between *)
(* two suspension points.  Unbounded asyncio.Queue.put never suspends.     *)
(*                                                                         *)
(* The specifications share the variables:                                 *)
(*   SpecPool, FairSpecPool  one pool, one queue and a caller;             *)
(*   Spec      invocations of run_pipeline one after another, with store   *)
(*             failures, signals and process restarts;                     *)
(*   SpecConc  invocations of run_pipeline interleaved in one event loop;  *)
(*   SpecWriter  the write-queue task and a producer;                      *)
(*   SpecCache   one MemoryCache and one caller;                           *)
(*   SpecCacheThreads  one MemoryCache and two threads;                    *)
(*   SpecScale   one pool with its auto-scaler and callers of add_worker   *)
(*               and remove_worker;                                        *)
(*   SpecFetch, FairSpecFetch  the fetching loop of process_subscribers;   *)
(*   SpecUpsert  the subscribers table under a sequence of write batches;  *)
(*   SpecMeta    a caller of the manager's run interface, with metadata;   *)
(*   SpecItem    one pool whose process_item meets every collaborator      *)
(*               answer;                                                   *)
(*   SpecOwn     the subscriber dicts as objects shared by the stages;     *)
(*   SpecSem     the workers of one stage and the semaphore of its         *)
(*               pipeline;                                                 *)
(*   SpecDedup   the dedup filter of one run over pages that repeat ids,   *)
(*               with a small cache that evicts and expires;               *)
(*   SpecWatermark  a caller of the manager's run interface, with          *)
(*               watermarks.                                               *)
(***************************************************************************)
EXTENDS Integers, Sequences, FiniteSets, TLC

VARIABLES
  db_state,   \* the pipeline_state row of pipeline "main" (NoRow when absent)
  db_runs,    \* the pipeline_runs table: run_id (1..) -> row
  store,      \* the subscribers table: the set of ids that have a row
  mgr,        \* the process-wide PipelineStateManager("main") (NoMgr before first use)
  cache,      \* MemoryCache._cache of the cache_manager singleton: key -> entry
  proc,       \* the process: restarts so far, scheduler stop flag, clock; and the
              \* number of store statements that have failed
  inv,        \* run_pipeline invocations: locals and position of each
  pool,       \* pool[i][p]: worker pool p of invocation i with its input queue
  writer,     \* writer[i]: the write queue and the process_write_queue task
  harness     \* caller of a stand-alone pool (the pool scenario of the spec)

vars == <<db_state, db_runs, store, mgr, cache, proc, inv, pool, writer, harness>>

----------------------------------------------------------------------------
(* Bounds of the model                                                     *)

MaxInvocations == 2      \* run_pipeline invocations over the whole behaviour
NumRecords == 1          \* subscribers the source holds
PoolWorkers == 2         \* min_workers = max_workers of the stand-alone pool
MaxItems == 5            \* items the stand-alone producer enqueues at most
MaxRestarts == 1         \* process restarts
MaxFaults == 1           \* statements of the store that fail over the whole behaviour

Invocations == 1..MaxInvocations
Stages == {"location", "referrer", "linkedin"}

\* The queue sentinel (Python None); items are subscriber ids, all >= 1.
Sentinel == 0
\* None for an id or a run id
NoId == 0
\* None for a string column
Null == "None"

----------------------------------------------------------------------------
(* WorkerPool                                                              *)

NoPool ==
  [queue |-> <<>>, workers |-> <<>>, active_workers |-> 0,
   min_workers |-> 0, max_workers |-> 0, should_stop |-> FALSE,
   processed_count |-> 0, taken |-> <<>>, reinserted |-> 0]

\* WorkerPool.__init__ together with the asyncio.Queue the pool reads.
\* taken and reinserted are history: the items get() handed to workers and
\* the number of times a worker put the sentinel back.
NewPool(minw, maxw) ==
  [NoPool EXCEPT !.min_workers = minw, !.max_workers = maxw]

\* WorkerPool.add_worker: a task is created, it has not run yet.
add_worker(pl) ==
  IF Len(pl.workers) >= pl.max_workers
    THEN pl
    ELSE [pl EXCEPT !.workers = Append(@, [pc |-> "start", item |-> NoId]),
                    !.active_workers = @ + 1]

RECURSIVE add_workers(_, _)
add_workers(pl, n) == IF n = 0 THEN pl ELSE add_workers(add_worker(pl), n - 1)

\* WorkerPool.start: min_workers calls of add_worker.
start(pl) == add_workers(pl, pl.min_workers)

\* remove_worker that also drops the newest worker task
remove_worker_Cancel(pl) ==
  IF pl.active_workers <= pl.min_workers
    THEN pl
    ELSE [pl EXCEPT !.active_workers = @ - 1,
                    !.workers = SubSeq(@, 1, Len(@) - 1)]

\* remove_worker without the test against min_workers
remove_worker_NoGuard(pl) == [pl EXCEPT !.active_workers = @ - 1]

\* WorkerPool.remove_worker: the count goes down, no task is touched
remove_worker(pl) ==
  IF pl.active_workers <= pl.min_workers
    THEN pl
    ELSE [pl EXCEPT !.active_workers = @ - 1]

\* self.throughput_window
throughput_window == 5

\* the history after auto_scale has appended a measurement
throughput_append(history, throughput) ==
  LET h == Append(history, throughput) IN
  IF Len(h) > throughput_window
    THEN SubSeq(h, Len(h) - throughput_window + 1, Len(h))
    ELSE h

\* WorkerPool.should_scale_up
should_scale_up(history) ==
  IF Len(history) < 2 THEN TRUE
  ELSE history[Len(history)] > history[Len(history) - 1]

\* WorkerPool.stop up to its await: the stop event is set.
stop_set(pl) == [pl EXCEPT !.should_stop = TRUE]

\* asyncio.gather(*self.workers) has completed: every worker task is done.
all_done(pl) == \A w \in 1..Len(pl.workers) : pl.workers[w].pc = "done"

\* a loop that never looks at the stop event
loop_check_NoStop(pl) == "waiting"

\* The re-check of the loop condition `while not self.should_stop.is_set()`.
loop_check(pl) == IF pl.should_stop THEN "done" ELSE "waiting"

\* First run of a worker task: the loop condition, then the bounded-wait get.
WorkerBegin(i, p, w) ==
  LET pl == pool[i][p] IN
  /\ w \in 1..Len(pl.workers)
  /\ pl.workers[w].pc = "start"
  /\ pool' = [pool EXCEPT ![i][p].workers[w].pc = loop_check(pl)]
  /\ UNCHANGED <<db_state, db_runs, store, mgr, cache, proc, inv, writer, harness>>

\* WorkerGet with the `await queue.put(None)` of the sentinel branch left out.
WorkerGet_NoReinsert(i, p, w) ==
  LET pl == pool[i][p] IN
  /\ w \in 1..Len(pl.workers)
  /\ pl.workers[w].pc = "waiting"
  /\ pl.queue # <<>>
  /\ LET x == Head(pl.queue) IN
     IF x = Sentinel
       THEN pool' = [pool EXCEPT ![i][p].queue = Tail(pl.queue),
                                 ![i][p].workers[w].pc = "done"]
       ELSE pool' = [pool EXCEPT ![i][p].queue = Tail(pl.queue),
                                 ![i][p].workers[w] = [pc |-> "processing", item |-> x],
                                 ![i][p].taken = Append(@, x)]
  /\ UNCHANGED <<db_state, db_runs, store, mgr, cache, proc, inv, writer, harness>>

\* queue.get() returns: the sentinel is put back and the worker leaves the
\* loop; any other item is handed to process_item.
WorkerGet(i, p, w) ==
  LET pl == pool[i][p] IN
  /\ w \in 1..Len(pl.workers)
  /\ pl.workers[w].pc = "waiting"
  /\ pl.queue # <<>>
  /\ LET x == Head(pl.queue) IN
     IF x = Sentinel
       THEN pool' = [pool EXCEPT ![i][p].queue = Append(Tail(pl.queue), Sentinel),
                                 ![i][p].workers[w].pc = "done",
                                 ![i][p].reinserted = @ + 1]
       ELSE pool' = [pool EXCEPT ![i][p].queue = Tail(pl.queue),
                                 ![i][p].workers[w] = [pc |-> "processing", item |-> x],
                                 ![i][p].taken = Append(@, x)]
  /\ UNCHANGED <<db_state, db_runs, store, mgr, cache, proc, inv, writer, harness>>

\* The 1.0 s wait on an empty queue times out: the worker leaves when the
\* stop event is set, otherwise it goes round the loop and waits again.
WorkerTimeout(i, p, w) ==
  LET pl == pool[i][p] IN
  /\ w \in 1..Len(pl.workers)
  /\ pl.workers[w].pc = "waiting"
  /\ pl.queue = <<>>
  /\ pool' = [pool EXCEPT ![i][p].workers[w].pc = loop_check(pl)]
  /\ UNCHANGED <<db_state, db_runs, store, mgr, cache, proc, inv, writer, harness>>

\* process_item returns (a copy goes to the write queue) or raises (logged);
\* then task_done and the loop condition.
WorkerProcess(i, p, w) ==
  LET pl == pool[i][p] IN
  /\ w \in 1..Len(pl.workers)
  /\ pl.workers[w].pc = "processing"
  /\ \E ok \in BOOLEAN :
       /\ pool' = [pool EXCEPT
                     ![i][p].workers[w] = [pc |-> loop_check(pl), item |-> NoId],
                     ![i][p].processed_count = IF ok THEN @ + 1 ELSE @]
       /\ writer' = IF ok
                      THEN [writer EXCEPT ![i].queue = Append(@, pl.workers[w].item)]
                      ELSE writer
  /\ UNCHANGED <<db_state, db_runs, store, mgr, cache, proc, inv, harness>>

WorkerStep(i, p, w) ==
  \/ WorkerBegin(i, p, w)
  \/ WorkerGet(i, p, w)
  \/ WorkerTimeout(i, p, w)
  \/ WorkerProcess(i, p, w)

----------------------------------------------------------------------------
(* The persistent store: pipeline_state and pipeline_runs (db/models.py).  *)
(* Every statement may fail: the fault argument of an operator names the   *)
(* statement that raises, "ok" when none does.  A result is a record with  *)
(* the tables after the call and ret: "True", "False" or "raise".          *)

\* None for an integer argument that was not passed
NoCount == -1

\* 0 for a statement that succeeds, 1 for one that fails
Cost(f) == IF f = "ok" THEN 0 ELSE 1

\* the value of every datetime.now()
Now == "now"

\* no pipeline_state row for the pipeline
NoRow ==
  [exists |-> FALSE, status |-> Null, last_processed_id |-> NoId,
   last_run_id |-> NoId, records_processed |-> 0]

\* keyword arguments of update_state, all None
NoStateArgs ==
  [status |-> Null, last_processed_id |-> NoId, last_run_id |-> NoId,
   records_processed |-> NoCount]

UpdateStateFaults == {"ok", "read", "write"}

\* PipelineStateModel.update_state: get_state, then UPDATE of the columns
\* that are not None, or INSERT of a new row.
update_state(st, a, f) ==
  IF f = "read" THEN [st |-> st, ret |-> "raise"]
  ELSE IF f = "write" THEN [st |-> st, ret |-> "False"]
  ELSE IF st.exists
    THEN [st |-> [st EXCEPT
                    !.status = IF a.status # Null THEN a.status ELSE @,
                    !.last_processed_id =
                       IF a.last_processed_id # NoId THEN a.last_processed_id ELSE @,
                    !.last_run_id = IF a.last_run_id # NoId THEN a.last_run_id ELSE @,
                    !.records_processed =
                       IF a.records_processed # NoCount THEN a.records_processed ELSE @],
          ret |-> "True"]
    ELSE [st |-> [exists |-> TRUE,
                  status |-> IF a.status # Null THEN a.status ELSE "idle",
                  last_processed_id |-> a.last_processed_id,
                  last_run_id |-> a.last_run_id,
                  records_processed |->
                     IF a.records_processed \in {NoCount, 0} THEN 0 ELSE a.records_processed],
          ret |-> "True"]

\* dict.update on run metadata: keys of b win
MetaUpdate(a, b) ==
  [k \in DOMAIN a \cup DOMAIN b |-> IF k \in DOMAIN b THEN b[k] ELSE a[k]]

\* the empty dict
NoMeta == [k \in {} |-> Null]

CreateRunFaults == {"ok", "insert", "state_read", "state_write"}

\* PipelineRunModel.create_run: INSERT of the run row, then update_state
\* (status, last_run_id); any exception is logged and raised again.
create_run(runs, st, status, metadata, f) ==
  IF f = "insert" THEN [runs |-> runs, st |-> st, ret |-> "raise", run_id |-> NoId]
  ELSE
    LET run_id == Len(runs) + 1
        row == [status |-> status, end_time |-> FALSE, records_processed |-> 0,
                error_message |-> Null, metadata |-> metadata]
        us == update_state(st, [NoStateArgs EXCEPT !.status = status, !.last_run_id = run_id],
                           IF f = "state_read" THEN "read"
                           ELSE IF f = "state_write" THEN "write" ELSE "ok")
    IN [runs |-> Append(runs, row), st |-> us.st,
        ret |-> IF us.ret = "raise" THEN "raise" ELSE "True",
        run_id |-> IF us.ret = "raise" THEN NoId ELSE run_id]

\* keyword arguments of update_run, all None
NoRunArgs ==
  [status |-> Null, end_time |-> FALSE, records_processed |-> NoCount,
   error_message |-> Null, metadata |-> NoMeta, has_metadata |-> FALSE]

UpdateRunFaults == {"ok", "read", "write", "state_read", "state_write"}

\* PipelineRunModel.update_run: SELECT of the row (outside the try), UPDATE
\* of the columns passed, metadata merged into the stored metadata; on a
\* terminal status the pipeline state is updated too.  An exception after
\* the SELECT is logged and turned into False.
update_run(runs, st, run_id, a, f) ==
  IF f = "read" THEN [runs |-> runs, st |-> st, ret |-> "raise"]
  ELSE IF run_id \notin 1..Len(runs) THEN [runs |-> runs, st |-> st, ret |-> "False"]
  ELSE IF f = "write" THEN [runs |-> runs, st |-> st, ret |-> "False"]
  ELSE
    LET old == runs[run_id]
        row == [status |-> IF a.status # Null THEN a.status ELSE old.status,
                end_time |-> IF a.end_time THEN TRUE ELSE old.end_time,
                records_processed |->
                   IF a.records_processed # NoCount THEN a.records_processed
                   ELSE old.records_processed,
                error_message |->
                   IF a.error_message # Null THEN a.error_message ELSE old.error_message,
                metadata |->
                   IF a.has_metadata THEN MetaUpdate(old.metadata, a.metadata)
                   ELSE old.metadata]
        runs2 == [runs EXCEPT ![run_id] = row]
    IN IF a.status \in {"completed", "failed"}
         THEN LET us == update_state(st,
                          [NoStateArgs EXCEPT
                             !.status = IF a.status = "completed" THEN "idle" ELSE "error",
                             !.records_processed = a.records_processed],
                          IF f = "state_read" THEN "read"
                          ELSE IF f = "state_write" THEN "write" ELSE "ok")
              IN [runs |-> runs2, st |-> us.st,
                  ret |-> IF us.ret = "raise" THEN "False" ELSE "True"]
         ELSE [runs |-> runs2, st |-> st, ret |-> "True"]

----------------------------------------------------------------------------
(* PipelineStateManager (db/state.py)                                      *)

\* no manager yet in _pipeline_managers
NoMgr ==
  [exists |-> FALSE, current_run_id |-> NoId, records_processed |-> 0,
   last_processed_id |-> NoId, metadata |-> NoMeta]

\* PipelineStateManager.__init__
NewMgr == [NoMgr EXCEPT !.exists = TRUE]

\* get_pipeline_state_manager: the manager of the process, created on first use
get_pipeline_state_manager(m) == IF m.exists THEN m ELSE NewMgr

GetStateFaults == {"ok", "read"}

\* PipelineStateManager.get_current_state: the row, created idle when absent.
\* A failing SELECT raises; so does the caller's state.get when the row
\* could not be created.
get_current_state(st, f) ==
  IF f = "read" THEN [st |-> st, ret |-> "raise"]
  ELSE IF st.exists THEN [st |-> st, ret |-> "True"]
  ELSE [st |-> update_state(st, [NoStateArgs EXCEPT !.status = "idle"], "ok").st,
        ret |-> "True"]

\* PipelineStateManager.start_run
start_run(m, runs, st, metadata, fc, fg) ==
  LET m1 == [m EXCEPT !.records_processed = 0]
      cr == create_run(runs, st, "running", metadata, fc)
      m2 == [m1 EXCEPT !.current_run_id = cr.run_id, !.metadata = metadata]
      gs == get_current_state(cr.st, fg)
  IN IF cr.ret = "raise"
       THEN [mgr |-> m1, runs |-> cr.runs, st |-> cr.st, ret |-> "raise", run_id |-> NoId]
     ELSE IF gs.ret = "raise"
       THEN [mgr |-> m2, runs |-> cr.runs, st |-> gs.st, ret |-> "raise", run_id |-> NoId]
     ELSE [mgr |-> [m2 EXCEPT !.last_processed_id = gs.st.last_processed_id],
           runs |-> cr.runs, st |-> gs.st, ret |-> "True", run_id |-> cr.run_id]

\* PipelineStateManager.update_progress: the counters and the metadata of
\* the manager change first, then the run row and the state row are written.
update_progress(m, runs, st, records_processed, last_processed_id, metadata_updates, fr, fs) ==
  IF m.current_run_id = NoId
    THEN [mgr |-> m, runs |-> runs, st |-> st, ret |-> "False"]
  ELSE
    LET m1 == [m EXCEPT
                 !.records_processed =
                    IF records_processed \notin {NoCount, 0} THEN @ + records_processed ELSE @,
                 !.last_processed_id =
                    IF last_processed_id # NoId THEN last_processed_id ELSE @,
                 !.metadata = MetaUpdate(@, metadata_updates)]
        ur == update_run(runs, st, m1.current_run_id,
                         [NoRunArgs EXCEPT !.records_processed = m1.records_processed,
                                           !.metadata = m1.metadata, !.has_metadata = TRUE],
                         fr)
        us == update_state(ur.st,
                           [NoStateArgs EXCEPT !.last_processed_id = m1.last_processed_id,
                                               !.records_processed = m1.records_processed],
                           fs)
    IN IF ur.ret # "True"
         THEN [mgr |-> m1, runs |-> ur.runs, st |-> ur.st, ret |-> ur.ret]
         ELSE [mgr |-> m1, runs |-> ur.runs, st |-> us.st, ret |-> us.ret]

\* PipelineStateManager.complete_run
complete_run(m, runs, st, records_processed, last_processed_id, metadata_updates, fr, fs) ==
  IF m.current_run_id = NoId
    THEN [mgr |-> m, runs |-> runs, st |-> st, ret |-> "False"]
  ELSE
    LET m1 == [m EXCEPT
                 !.records_processed =
                    IF records_processed \notin {NoCount, 0} THEN records_processed ELSE @,
                 !.last_processed_id =
                    IF last_processed_id # NoId THEN last_processed_id ELSE @,
                 !.metadata = MetaUpdate(@, metadata_updates)]
        ur == update_run(runs, st, m1.current_run_id,
                         [NoRunArgs EXCEPT !.status = "completed", !.end_time = TRUE,
                                           !.records_processed = m1.records_processed,
                                           !.metadata = m1.metadata, !.has_metadata = TRUE],
                         fr)
        us == update_state(ur.st,
                           [NoStateArgs EXCEPT !.status = "idle",
                                               !.last_processed_id = m1.last_processed_id,
                                               !.records_processed = m1.records_processed],
                           fs)
    IN IF ur.ret # "True"
         THEN [mgr |-> m1, runs |-> ur.runs, st |-> ur.st, ret |-> ur.ret]
       ELSE IF us.ret # "True"
         THEN [mgr |-> m1, runs |-> ur.runs, st |-> us.st, ret |-> us.ret]
       ELSE [mgr |-> [m1 EXCEPT !.current_run_id = NoId],
             runs |-> ur.runs, st |-> us.st, ret |-> "True"]

\* fail_run with the error_message argument of update_run left out
fail_run_NoMessage(m, runs, st, error_message, records_processed, metadata_updates, fr, fs) ==
  IF m.current_run_id = NoId
    THEN [mgr |-> m, runs |-> runs, st |-> st, ret |-> "False"]
  ELSE
    LET m1 == [m EXCEPT
                 !.records_processed =
                    IF records_processed \notin {NoCount, 0} THEN records_processed ELSE @,
                 !.metadata =
                    MetaUpdate(MetaUpdate(@, metadata_updates),
                               [error |-> [message |-> error_message, timestamp |-> Now]])]
        ur == update_run(runs, st, m1.current_run_id,
                         [NoRunArgs EXCEPT !.status = "failed", !.end_time = TRUE,
                                           !.records_processed = m1.records_processed,
                                           !.metadata = m1.metadata, !.has_metadata = TRUE],
                         fr)
        us == update_state(ur.st,
                           [NoStateArgs EXCEPT !.status = "error",
                                               !.records_processed = m1.records_processed],
                           fs)
    IN IF ur.ret # "True"
         THEN [mgr |-> m1, runs |-> ur.runs, st |-> ur.st, ret |-> ur.ret]
       ELSE IF us.ret # "True"
         THEN [mgr |-> m1, runs |-> ur.runs, st |-> us.st, ret |-> us.ret]
       ELSE [mgr |-> [m1 EXCEPT !.current_run_id = NoId],
             runs |-> ur.runs, st |-> us.st, ret |-> "True"]

\* fail_run that writes the manager's last_processed_id as complete_run does
fail_run_Watermark(m, runs, st, error_message, records_processed, metadata_updates, fr, fs) ==
  IF m.current_run_id = NoId
    THEN [mgr |-> m, runs |-> runs, st |-> st, ret |-> "False"]
  ELSE
    LET m1 == [m EXCEPT
                 !.records_processed =
                    IF records_processed \notin {NoCount, 0} THEN records_processed ELSE @,
                 !.metadata =
                    MetaUpdate(MetaUpdate(@, metadata_updates),
                               [error |-> [message |-> error_message, timestamp |-> Now]])]
        ur == update_run(runs, st, m1.current_run_id,
                         [NoRunArgs EXCEPT !.status = "failed", !.end_time = TRUE,
                                           !.records_processed = m1.records_processed,
                                           !.error_message = error_message,
                                           !.metadata = m1.metadata, !.has_metadata = TRUE],
                         fr)
        us == update_state(ur.st,
                           [NoStateArgs EXCEPT !.status = "error",
                                               !.last_processed_id = m1.last_processed_id,
                                               !.records_processed = m1.records_processed],
                           fs)
    IN IF ur.ret # "True"
         THEN [mgr |-> m1, runs |-> ur.runs, st |-> ur.st, ret |-> ur.ret]
       ELSE IF us.ret # "True"
         THEN [mgr |-> m1, runs |-> ur.runs, st |-> us.st, ret |-> us.ret]
       ELSE [mgr |-> [m1 EXCEPT !.current_run_id = NoId],
             runs |-> ur.runs, st |-> us.st, ret |-> "True"]

\* PipelineStateManager.fail_run
fail_run(m, runs, st, error_message, records_processed, metadata_updates, fr, fs) ==
  IF m.current_run_id = NoId
    THEN [mgr |-> m, runs |-> runs, st |-> st, ret |-> "False"]
  ELSE
    LET m1 == [m EXCEPT
                 !.records_processed =
                    IF records_processed \notin {NoCount, 0} THEN records_processed ELSE @,
                 !.metadata =
                    MetaUpdate(MetaUpdate(@, metadata_updates),
                               [error |-> [message |-> error_message, timestamp |-> Now]])]
        ur == update_run(runs, st, m1.current_run_id,
                         [NoRunArgs EXCEPT !.status = "failed", !.end_time = TRUE,
                                           !.records_processed = m1.records_processed,
                                           !.error_message = error_message,
                                           !.metadata = m1.metadata, !.has_metadata = TRUE],
                         fr)
        us == update_state(ur.st,
                           [NoStateArgs EXCEPT !.status = "error",
                                               !.records_processed = m1.records_processed],
                           fs)
    IN IF ur.ret # "True"
         THEN [mgr |-> m1, runs |-> ur.runs, st |-> ur.st, ret |-> ur.ret]
       ELSE IF us.ret # "True"
         THEN [mgr |-> m1, runs |-> ur.runs, st |-> us.st, ret |-> us.ret]
       ELSE [mgr |-> [m1 EXCEPT !.current_run_id = NoId],
             runs |-> ur.runs, st |-> us.st, ret |-> "True"]

----------------------------------------------------------------------------
(* The dedup cache (cache/memory_cache.py): _cache as the sequence of its  *)
(* entries in insertion order, each [key, value, created_at, expires_at].  *)

CACHE_MAX_SIZE == 1000000
CACHE_TTL == 604800

\* float('inf') as expires_at
Forever == -1

CacheKeys(c) == {c[k].key : k \in 1..Len(c)}

CacheIndex(c, key) == CHOOSE k \in 1..Len(c) : c[k].key = key

CacheRemove(c, k) == [j \in 1..(Len(c) - 1) |-> IF j < k THEN c[j] ELSE c[j + 1]]

\* the expiry test of get and exists
mc_expired(e, t, ttl) == ttl > 0 /\ t > e.expires_at

\* MemoryCache.exists at time t: [cache after the lazy delete, the answer]
mc_exists(c, key, t, ttl) ==
  IF key \notin CacheKeys(c) THEN [cache |-> c, ret |-> FALSE]
  ELSE LET k == CacheIndex(c, key) IN
       IF mc_expired(c[k], t, ttl)
         THEN [cache |-> CacheRemove(c, k), ret |-> FALSE]
         ELSE [cache |-> c, ret |-> TRUE]

\* MemoryCache.get at time t: the value, Null for None
mc_get(c, key, t, ttl) ==
  IF key \notin CacheKeys(c) THEN [cache |-> c, ret |-> Null]
  ELSE LET k == CacheIndex(c, key) IN
       IF mc_expired(c[k], t, ttl)
         THEN [cache |-> CacheRemove(c, k), ret |-> Null]
         ELSE [cache |-> c, ret |-> c[k].value]

\* the first entry with the smallest created_at (Python min over dict items)
CacheOldest(c) ==
  CHOOSE k \in 1..Len(c) :
    /\ \A j \in 1..Len(c) : c[k].created_at <= c[j].created_at
    /\ \A j \in 1..(k - 1) : c[j].created_at > c[k].created_at

\* mc_set without the eviction of the oldest entry
mc_set_NoEvict(c, key, value, t, max_size, ttl) ==
  LET entry == [key |-> key, value |-> value, created_at |-> t,
                expires_at |-> IF ttl > 0 THEN t + ttl ELSE Forever]
  IN IF key \in CacheKeys(c)
       THEN [c EXCEPT ![CacheIndex(c, key)] = entry]
       ELSE Append(c, entry)

\* MemoryCache.set at time t (max_size >= 1): the cache after the call; an
\* entry set again keeps its place in the dict
mc_set(c, key, value, t, max_size, ttl) ==
  LET entry == [key |-> key, value |-> value, created_at |-> t,
                expires_at |-> IF ttl > 0 THEN t + ttl ELSE Forever]
      c1 == IF Len(c) >= max_size /\ key \notin CacheKeys(c)
              THEN CacheRemove(c, CacheOldest(c)) ELSE c
  IN IF key \in CacheKeys(c1)
       THEN [c1 EXCEPT ![CacheIndex(c1, key)] = entry]
       ELSE Append(c1, entry)

\* MemoryCache.delete
mc_delete(c, key) ==
  IF key \in CacheKeys(c)
    THEN [cache |-> CacheRemove(c, CacheIndex(c, key)), ret |-> TRUE]
    ELSE [cache |-> c, ret |-> FALSE]

\* MemoryCache.clear
mc_clear(c) == <<>>

\* MemoryCache.size
mc_size(c) == Len(c)

RECURSIVE mc_filter_existing(_, _, _, _)
\* MemoryCache.filter_existing: the keys for which exists answers True
mc_filter_existing(c, keys, t, ttl) ==
  IF keys = <<>> THEN [cache |-> c, ret |-> <<>>]
  ELSE LET ex == mc_exists(c, Head(keys), t, ttl)
           rest == mc_filter_existing(ex.cache, Tail(keys), t, ttl)
       IN [cache |-> rest.cache,
           ret |-> IF ex.ret THEN <<Head(keys)>> \o rest.ret ELSE rest.ret]

RECURSIVE mc_filter_non_existing(_, _, _, _)
\* MemoryCache.filter_non_existing by one caller: exists for every key in
\* turn, the keys for which it answers False
mc_filter_non_existing(c, keys, t, ttl) ==
  IF keys = <<>> THEN [cache |-> c, ret |-> <<>>]
  ELSE LET ex == mc_exists(c, Head(keys), t, ttl)
           rest == mc_filter_non_existing(ex.cache, Tail(keys), t, ttl)
       IN [cache |-> rest.cache,
           ret |-> IF ex.ret THEN rest.ret ELSE <<Head(keys)>> \o rest.ret]

\* cache_manager.exists: the singleton built with the settings
cache_exists(c, key, t) == mc_exists(c, key, t, CACHE_TTL)

\* cache_manager.set(subscriber_id, True)
cache_set(c, key, t) == mc_set(c, key, TRUE, t, CACHE_MAX_SIZE, CACHE_TTL)

----------------------------------------------------------------------------
(* The subscriber source and process_subscribers (main.py,                 *)
(* pipelines/subscriber_pipeline.py)                                       *)

\* settings, scaled down: 1000 records per page, 5000 records per batch
RECORDS_PER_PAGE == 1
MAX_RECORDS_PER_BATCH == 3
\* min_workers passed to the three pools (5, 5 and 2 in run_pipeline)
StageWorkers == 1
\* os.cpu_count() or 4
CPU_COUNT == 4
\* batch_size of process_write_queue (100 in the source)
batch_size == 2

Min(a, b) == IF a <= b THEN a ELSE b

\* The subscribers the source holds, in cursor order; the cursor of a
\* subscriber is its id.  Every subscriber has an email address; odd ids
\* have a work email.
Subscriber(id) ==
  [id |-> id, email_address |-> TRUE, work |-> id % 2 = 1,
   state |-> "active", low_purchase_power |-> FALSE]

\* the gating of the LinkedIn queue
linkedin_gate(sub) ==
  sub.work /\ sub.state = "active" /\ ~sub.low_purchase_power

\* ids of a sequence of ids, as a set
Range(q) == {q[k] : k \in 1..Len(q)}

RECURSIVE SeqFilter(_, _)
\* the subsequence of q with the elements of the set keep
SeqFilter(q, keep) ==
  IF q = <<>> THEN <<>>
  ELSE IF Head(q) \in keep THEN <<Head(q)>> \o SeqFilter(Tail(q), keep)
  ELSE SeqFilter(Tail(q), keep)

\* SubscriberPipeline.fetch_subscribers on a 200 response: the page after
\* the cursor, without the ids this pipeline object has returned before.
fetch_subscribers(fetched, after_cursor, limit) ==
  LET per_page == Min(limit, RECORDS_PER_PAGE)
      last == Min(after_cursor + per_page, NumRecords)
      page == [k \in 1..(last - after_cursor) |-> after_cursor + k]
      fresh == SeqFilter(page, Range(page) \ fetched)
  IN [subscribers |-> fresh,
      end_cursor |-> IF last < NumRecords THEN last ELSE NoId,
      fetched |-> fetched \cup Range(page)]

RECURSIVE FilterNew(_, _, _, _)
\* process_subscribers, the filter loop over one page: ids neither in
\* existing_subscribers nor in the cache survive, and are added to both.
FilterNew(subs, existing, c, t) ==
  IF subs = <<>> THEN [new |-> <<>>, existing |-> existing, cache |-> c]
  ELSE
    LET id == Head(subs)
        ex == IF id \in existing THEN [cache |-> c, ret |-> TRUE]
              ELSE cache_exists(c, id, t)
        skip == id \in existing \/ ex.ret
        rest == FilterNew(Tail(subs),
                          IF skip THEN existing ELSE existing \cup {id},
                          IF skip THEN ex.cache ELSE cache_set(ex.cache, id, t), t)
    IN [new |-> IF skip THEN rest.new ELSE <<id>> \o rest.new,
        existing |-> rest.existing, cache |-> rest.cache]

\* process_subscribers, the queueing loop: every new subscriber with an
\* email address goes to the location and the referrer queue, and to the
\* LinkedIn queue when the gate holds.
Enqueue(pls, new) ==
  LET withEmail == SeqFilter(new, {id \in Range(new) : Subscriber(id).email_address})
      gated == SeqFilter(withEmail, {id \in Range(new) : linkedin_gate(Subscriber(id))})
  IN [pls EXCEPT !["location"].queue = @ \o withEmail,
                 !["referrer"].queue = @ \o withEmail,
                 !["linkedin"].queue = @ \o gated]

\* run_pipeline after process_subscribers has returned: one sentinel on
\* each stage queue, then location_pool.stop() up to its await.
AfterFetch(pls) ==
  [p \in Stages |->
     LET q == [pls[p] EXCEPT !.queue = Append(@, Sentinel)]
     IN IF p = "location" THEN stop_set(q) ELSE q]

\* run_pipeline: queues, pools constructed and started
NewPools ==
  [p \in Stages |-> start(NewPool(StageWorkers, CPU_COUNT * 4))]

NoPools == [p \in Stages |-> NoPool]

----------------------------------------------------------------------------
(* run_pipeline (main.py) and the writer task                              *)

\* handed is history: the batches given to write_batch, in order
NoWriter ==
  [queue |-> <<>>, pc |-> "none", batch |-> <<>>, written_count |-> 0, handed |-> <<>>]

\* An invocation of run_pipeline before it is made.  requests is history:
\* the after_cursor of every page request of the run, in order; last_id is
\* the id of the last subscriber the run queued; write_failed tells that a
\* bulk upsert of the run raised.
NoInv ==
  [pc |-> "idle", epoch |-> 0, last_processed_id |-> NoId, run_id |-> NoId,
   processed_count |-> 0, next_cursor |-> NoId, existing |-> {}, fetched |-> {},
   requests |-> <<>>, last_id |-> NoId, err |-> Null, retval |-> Null,
   fail_ret |-> Null, refused_running |-> FALSE, stale |-> FALSE,
   write_failed |-> FALSE]

\* The frame of run_pipeline is gone: the locals of process_subscribers are
\* dropped, what the invocation did is kept.
Leave(v, pc) ==
  [v EXCEPT !.pc = pc, !.existing = {}, !.fetched = {}, !.next_cursor = NoId]

\* str(e) of the exceptions that reach the except clause of run_pipeline
ErrInit == "init error"
ErrStore == "store error"

\* positions at which run_pipeline is suspended in an await
Suspended ==
  {"check", "get_last", "start_run", "fetch", "stop_location", "stop_referrer",
   "stop_linkedin", "await_writer", "except"}

Live(i) == inv[i].pc \in Suspended

\* no run_pipeline task is alive in the process
NoneLive == \A j \in Invocations : ~Live(j)

\* PipelineScheduler.should_run_batch on the state row: not while the status
\* is running, and only when the interval has elapsed.
should_run_batch(st, elapsed) == st.status # "running" /\ elapsed

\* An entry point (main.py, run_batch.py) calls run_pipeline, which runs up
\* to its first await, in is_pipeline_running.
Enter(i) ==
  /\ inv[i].pc = "idle"
  /\ ~proc.should_stop
  /\ mgr' = get_pipeline_state_manager(mgr)
  /\ inv' = [inv EXCEPT ![i].pc = "check", ![i].epoch = proc.restarts]
  /\ UNCHANGED <<db_state, db_runs, store, cache, proc, pool, writer, harness>>

\* The scheduler loop makes a tick: should_run_batch, then run_batch, which
\* calls run_pipeline.  An exception of should_run_batch ends the scheduler.
Tick(i) ==
  /\ inv[i].pc = "idle"
  /\ ~proc.should_stop
  /\ mgr' = get_pipeline_state_manager(mgr)
  /\ \E f \in GetStateFaults, elapsed \in BOOLEAN :
       LET gs == get_current_state(db_state, f) IN
       /\ proc.faults + Cost(f) <= MaxFaults
       /\ db_state' = gs.st
       /\ proc' = [proc EXCEPT !.should_stop = (gs.ret = "raise"),
                               !.faults = @ + Cost(f)]
       /\ inv' = [inv EXCEPT
                    ![i].pc = IF gs.ret # "raise" /\ should_run_batch(gs.st, elapsed)
                                THEN "check" ELSE "not_run",
                    ![i].epoch = proc.restarts,
                    ![i].refused_running = (gs.ret # "raise" /\ gs.st.status = "running"),
                    ![i].stale = (gs.ret # "raise" /\ gs.st.status = "running" /\ NoneLive)]
  /\ UNCHANGED <<db_runs, store, cache, pool, writer, harness>>

\* The scheduler awaits each batch, and an entry point makes one run: an
\* invocation comes after the previous one has ended.
Invoke(i) ==
  /\ \A j \in 1..(i - 1) : inv[j].pc # "idle" /\ ~Live(j)
  /\ \/ Enter(i)
     \/ Tick(i)

\* Entry points running in one event loop without waiting for each other.
InvokeConcurrent(i) ==
  /\ Enter(i)

\* CheckRunning that takes the status error for a running pipeline too
CheckRunning_ErrorBlocks(i) ==
  /\ inv[i].pc = "check"
  /\ \E f \in GetStateFaults :
       LET gs == get_current_state(db_state, f)
           busy == gs.ret # "raise" /\ gs.st.status \in {"running", "error"}
       IN
       /\ proc.faults + Cost(f) <= MaxFaults
       /\ proc' = [proc EXCEPT !.faults = @ + Cost(f)]
       /\ db_state' = gs.st
       /\ inv' = [inv EXCEPT
                    ![i].pc = IF gs.ret = "raise" THEN "raised"
                              ELSE IF busy THEN "returned" ELSE "get_last",
                    ![i].retval = IF busy THEN "False" ELSE @,
                    ![i].refused_running = busy,
                    ![i].stale = (busy /\ \A j \in Invocations \ {i} : ~Live(j))]
  /\ UNCHANGED <<db_runs, store, mgr, cache, pool, writer, harness>>

\* run_pipeline: `if await state_manager.is_pipeline_running(): return False`
CheckRunning(i) ==
  /\ inv[i].pc = "check"
  /\ \E f \in GetStateFaults :
       LET gs == get_current_state(db_state, f) IN
       /\ proc.faults + Cost(f) <= MaxFaults
       /\ proc' = [proc EXCEPT !.faults = @ + Cost(f)]
       /\ db_state' = gs.st
       /\ inv' = [inv EXCEPT
                    ![i].pc = IF gs.ret = "raise" THEN "raised"
                              ELSE IF gs.st.status = "running" THEN "returned"
                              ELSE "get_last",
                    ![i].retval = IF gs.ret # "raise" /\ gs.st.status = "running"
                                    THEN "False" ELSE @,
                    ![i].refused_running = (gs.ret # "raise" /\ gs.st.status = "running"),
                    ![i].stale = (gs.ret # "raise" /\ gs.st.status = "running"
                                  /\ \A j \in Invocations \ {i} : ~Live(j))]
  /\ UNCHANGED <<db_runs, store, mgr, cache, pool, writer, harness>>

\* run_pipeline: `last_processed_id = await state_manager.get_last_processed_id()`
GetLastProcessedId(i) ==
  /\ inv[i].pc = "get_last"
  /\ \E f \in GetStateFaults :
       LET gs == get_current_state(db_state, f) IN
       /\ proc.faults + Cost(f) <= MaxFaults
       /\ proc' = [proc EXCEPT !.faults = @ + Cost(f)]
       /\ db_state' = gs.st
       /\ inv' = [inv EXCEPT
                    ![i].pc = IF gs.ret = "raise" THEN "raised" ELSE "start_run",
                    ![i].last_processed_id = gs.st.last_processed_id]
  /\ UNCHANGED <<db_runs, store, mgr, cache, pool, writer, harness>>

\* the run metadata built in run_pipeline
run_metadata(lpid) ==
  [max_records |-> MAX_RECORDS_PER_BATCH, start_time |-> Now, last_processed_id |-> lpid]

\* run_pipeline from start_run to the first page request: start_run, the
\* pipelines, queues and pools are built (a constructor may raise), the
\* pools are started, the writer task is created, the first page is asked.
StartRun(i) ==
  /\ inv[i].pc = "start_run"
  /\ \E fc \in CreateRunFaults, fg \in GetStateFaults, init_ok \in BOOLEAN :
       LET sr == start_run(mgr, db_runs, db_state,
                           run_metadata(inv[i].last_processed_id), fc, fg)
       IN
       /\ proc.faults + Cost(fc) + Cost(fg) <= MaxFaults
       /\ proc' = [proc EXCEPT !.faults = @ + Cost(fc) + Cost(fg)]
       /\ mgr' = sr.mgr
       /\ db_runs' = sr.runs
       /\ db_state' = sr.st
       /\ IF sr.ret = "raise"
            THEN /\ init_ok
                 /\ inv' = [inv EXCEPT ![i].pc = "raised"]
                 /\ UNCHANGED <<pool, writer>>
          ELSE IF ~init_ok
            THEN /\ inv' = [inv EXCEPT ![i].pc = "except", ![i].run_id = sr.run_id,
                                       ![i].err = ErrInit]
                 /\ UNCHANGED <<pool, writer>>
          ELSE /\ inv' = [inv EXCEPT ![i].pc = "fetch", ![i].run_id = sr.run_id,
                                     ![i].requests = <<inv[i].next_cursor>>]
               /\ pool' = [pool EXCEPT ![i] = NewPools]
               /\ writer' = [writer EXCEPT ![i].pc = "waiting"]
  /\ UNCHANGED <<store, cache, harness>>

\* process_subscribers: the response to a page request arrives and the page
\* is handled up to the next await: the next page request, or, when the
\* loop ends, the sentinels and location_pool.stop().
FetchPage(i) ==
  /\ inv[i].pc = "fetch"
  /\ \E ok \in BOOLEAN :
       LET v == inv[i]
           limit == Min(RECORDS_PER_PAGE, MAX_RECORDS_PER_BATCH - v.processed_count)
           res == fetch_subscribers(v.fetched, v.next_cursor, limit)
           empty == ~ok \/ res.subscribers = <<>>
           fl == FilterNew(res.subscribers, v.existing, cache, proc.time)
           count == v.processed_count + Len(fl.new)
           more == ~empty /\ res.end_cursor # NoId /\ count < MAX_RECORDS_PER_BATCH
       IN
       IF empty
         THEN /\ inv' = [inv EXCEPT ![i].pc = "stop_location",
                                    ![i].fetched = IF ok THEN res.fetched ELSE @]
              /\ pool' = [pool EXCEPT ![i] = AfterFetch(@)]
              /\ UNCHANGED cache
         ELSE /\ inv' = [inv EXCEPT
                           ![i].pc = IF more THEN "fetch" ELSE "stop_location",
                           ![i].fetched = res.fetched,
                           ![i].next_cursor = res.end_cursor,
                           ![i].existing = fl.existing,
                           ![i].processed_count = count,
                           ![i].last_id = IF fl.new = <<>> THEN @ ELSE fl.new[Len(fl.new)],
                           ![i].requests = IF more THEN Append(@, res.end_cursor) ELSE @]
              /\ cache' = fl.cache
              /\ pool' = [pool EXCEPT
                            ![i] = IF more THEN Enqueue(@, fl.new)
                                   ELSE AfterFetch(Enqueue(@, fl.new))]
  /\ UNCHANGED <<db_state, db_runs, store, mgr, proc, writer, harness>>

\* the stage stopped after p, "none" after the last
NextStage(p) ==
  IF p = "location" THEN "referrer" ELSE IF p = "referrer" THEN "linkedin" ELSE "none"

StopPc(p) ==
  IF p = "location" THEN "stop_location"
  ELSE IF p = "referrer" THEN "stop_referrer" ELSE "stop_linkedin"

\* run_pipeline: pool.stop() of stage p returns; the next pool's stop() is
\* called, or, after the last pool, the sentinel is put on the write queue
\* and the writer task is awaited.
StopReturn(i, p) ==
  /\ inv[i].pc = StopPc(p)
  /\ all_done(pool[i][p])
  /\ IF NextStage(p) # "none"
       THEN /\ inv' = [inv EXCEPT ![i].pc = StopPc(NextStage(p))]
            /\ pool' = [pool EXCEPT ![i][NextStage(p)] = stop_set(@)]
            /\ UNCHANGED writer
       ELSE /\ inv' = [inv EXCEPT ![i].pc = "await_writer"]
            /\ writer' = [writer EXCEPT ![i].queue = Append(@, Sentinel)]
            /\ UNCHANGED pool
  /\ UNCHANGED <<db_state, db_runs, store, mgr, cache, proc, harness>>

\* WriterGet without the write of the remaining items after the loop
WriterGet_NoFlush(i) ==
  LET wr == writer[i] IN
  /\ wr.pc = "waiting"
  /\ wr.queue # <<>>
  /\ LET x == Head(wr.queue) IN
     IF x = Sentinel
       THEN writer' = [writer EXCEPT ![i].queue = Tail(wr.queue), ![i].pc = "done"]
       ELSE writer' = [writer EXCEPT
                         ![i].queue = Tail(wr.queue),
                         ![i].batch = Append(wr.batch, x),
                         ![i].pc = IF Len(wr.batch) + 1 >= batch_size THEN "write" ELSE "waiting"]
  /\ UNCHANGED <<db_state, db_runs, store, mgr, cache, proc, inv, pool, harness>>

\* process_write_queue: write_queue.get() returns
WriterGet(i) ==
  LET wr == writer[i] IN
  /\ wr.pc = "waiting"
  /\ wr.queue # <<>>
  /\ LET x == Head(wr.queue) IN
     IF x = Sentinel
       THEN writer' = [writer EXCEPT
                         ![i].queue = Tail(wr.queue),
                         ![i].pc = IF wr.batch # <<>> THEN "final_write" ELSE "done"]
       ELSE writer' = [writer EXCEPT
                         ![i].queue = Tail(wr.queue),
                         ![i].batch = Append(wr.batch, x),
                         ![i].pc = IF Len(wr.batch) + 1 >= batch_size THEN "write" ELSE "waiting"]
  /\ UNCHANGED <<db_state, db_runs, store, mgr, cache, proc, inv, pool, harness>>

\* write_batch: the bulk upsert is one transaction; any exception is
\* logged and turned into False, which process_write_queue ignores.
write_batch(rows, batch, ok) == IF ok THEN rows \cup Range(batch) ELSE rows

\* process_write_queue: write_batch returns, for a full batch or for the
\* last one
WriterWrite(i) ==
  LET wr == writer[i] IN
  /\ wr.pc \in {"write", "final_write"}
  /\ \E ok \in BOOLEAN :
       /\ store' = write_batch(store, wr.batch, ok)
       /\ inv' = [inv EXCEPT ![i].write_failed = @ \/ ~ok]
  /\ writer' = [writer EXCEPT
                  ![i].batch = <<>>,
                  ![i].written_count = @ + Len(wr.batch),
                  ![i].handed = Append(@, wr.batch),
                  ![i].pc = IF wr.pc = "write" THEN "waiting" ELSE "done"]
  /\ UNCHANGED <<db_state, db_runs, mgr, cache, proc, pool, harness>>

\* run_pipeline: the writer task has ended; complete_run; return True.
\* An exception of complete_run reaches the except clause.
CompleteRun(i) ==
  /\ inv[i].pc = "await_writer"
  /\ writer[i].pc = "done"
  /\ \E fr \in UpdateRunFaults, fs \in UpdateStateFaults :
       LET cr == complete_run(mgr, db_runs, db_state, inv[i].processed_count, NoId,
                              [end_time |-> Now], fr, fs)
       IN
       /\ proc.faults + Cost(fr) + Cost(fs) <= MaxFaults
       /\ proc' = [proc EXCEPT !.faults = @ + Cost(fr) + Cost(fs)]
       /\ mgr' = cr.mgr
       /\ db_runs' = cr.runs
       /\ db_state' = cr.st
       /\ inv' = [inv EXCEPT
                    ![i] = IF cr.ret = "raise"
                             THEN [@ EXCEPT !.pc = "except", !.err = ErrStore]
                             ELSE [Leave(@, "returned") EXCEPT !.retval = "True"]]
       /\ pool' = [pool EXCEPT ![i] = IF cr.ret = "raise" THEN @ ELSE NoPools]
       /\ writer' = [writer EXCEPT ![i] = IF cr.ret = "raise" THEN @ ELSE NoWriter]
  /\ UNCHANGED <<store, cache, harness>>

\* run_pipeline, the except clause: fail_run(str(e), ...); return False.
FailRun(i) ==
  /\ inv[i].pc = "except"
  /\ \E fr \in UpdateRunFaults, fs \in UpdateStateFaults :
       LET fl == fail_run(mgr, db_runs, db_state, inv[i].err, NoCount,
                          [end_time |-> Now, error_traceback |-> inv[i].err], fr, fs)
       IN
       /\ proc.faults + Cost(fr) + Cost(fs) <= MaxFaults
       /\ proc' = [proc EXCEPT !.faults = @ + Cost(fr) + Cost(fs)]
       /\ mgr' = fl.mgr
       /\ db_runs' = fl.runs
       /\ db_state' = fl.st
       /\ inv' = [inv EXCEPT
                    ![i] = [Leave(@, IF fl.ret = "raise" THEN "raised" ELSE "returned")
                              EXCEPT !.fail_ret = fl.ret,
                                     !.retval = IF fl.ret = "raise" THEN @ ELSE "False"]]
  /\ pool' = [pool EXCEPT ![i] = NoPools]
  /\ writer' = [writer EXCEPT ![i] = NoWriter]
  /\ UNCHANGED <<store, cache, harness>>

\* PipelineScheduler._handle_signal: the stop flag is set and the running
\* batch task is cancelled; CancelledError is no Exception, so it passes
\* the except clause of run_pipeline.  The scheduler loop ends.
Cancel(i) ==
  /\ Live(i)
  /\ ~proc.should_stop
  /\ proc' = [proc EXCEPT !.should_stop = TRUE]
  /\ inv' = [inv EXCEPT ![i] = Leave(@, "cancelled")]
  /\ pool' = [pool EXCEPT ![i] = NoPools]
  /\ writer' = [writer EXCEPT ![i] = NoWriter]
  /\ UNCHANGED <<db_state, db_runs, store, mgr, cache, harness>>

\* The process ends (exit after a signal, crash, kill) and is started
\* again: the tables remain, every object of the process is gone.
Restart ==
  /\ proc.restarts < MaxRestarts
  /\ \E i \in Invocations : inv[i].pc # "idle"
  /\ proc' = [proc EXCEPT !.restarts = @ + 1, !.should_stop = FALSE]
  /\ mgr' = NoMgr
  /\ cache' = <<>>
  /\ inv' = [i \in Invocations |-> IF Live(i) THEN Leave(inv[i], "dead") ELSE inv[i]]
  /\ pool' = [i \in Invocations |-> NoPools]
  /\ writer' = [i \in Invocations |-> NoWriter]
  /\ UNCHANGED <<db_state, db_runs, store, harness>>

----------------------------------------------------------------------------
(* A stand-alone pool: one pool, one queue, a caller that starts the pool, *)
(* enqueues items 1, 2, ... and then one sentinel, and calls stop().       *)

PoolStart ==
  /\ harness.pc = "new"
  /\ pool' = [pool EXCEPT ![1]["location"] = start(@)]
  /\ harness' = [harness EXCEPT !.pc = "started"]
  /\ UNCHANGED <<db_state, db_runs, store, mgr, cache, proc, inv, writer>>

\* queue.put(item) before the sentinel
PoolPut ==
  /\ harness.pc \in {"new", "started"}
  /\ ~harness.sentinel
  /\ harness.put < MaxItems
  /\ pool' = [pool EXCEPT ![1]["location"].queue = Append(@, harness.put + 1)]
  /\ harness' = [harness EXCEPT !.put = @ + 1]
  /\ UNCHANGED <<db_state, db_runs, store, mgr, cache, proc, inv, writer>>

\* queue.put(None): exactly one sentinel is injected
PoolPutSentinel ==
  /\ harness.pc \in {"new", "started"}
  /\ ~harness.sentinel
  /\ pool' = [pool EXCEPT ![1]["location"].queue = Append(@, Sentinel)]
  /\ harness' = [harness EXCEPT !.sentinel = TRUE]
  /\ UNCHANGED <<db_state, db_runs, store, mgr, cache, proc, inv, writer>>

\* stop() is called: the event is set and the caller awaits the workers
PoolStop ==
  /\ harness.pc = "started"
  /\ pool' = [pool EXCEPT ![1]["location"] = stop_set(@)]
  /\ harness' = [harness EXCEPT !.pc = "stopping", !.sentinel_before_stop = harness.sentinel]
  /\ UNCHANGED <<db_state, db_runs, store, mgr, cache, proc, inv, writer>>

\* stop() returns
PoolStopReturn ==
  /\ harness.pc = "stopping"
  /\ all_done(pool[1]["location"])
  /\ harness' = [harness EXCEPT !.pc = "stopped"]
  /\ UNCHANGED <<db_state, db_runs, store, mgr, cache, proc, inv, writer, pool>>

PoolWorker == \E w \in 1..PoolWorkers : WorkerStep(1, "location", w)

PoolInit ==
  /\ db_state = NoRow
  /\ db_runs = <<>>
  /\ store = {}
  /\ mgr = NoMgr
  /\ cache = <<>>
  /\ proc = [restarts |-> 0, should_stop |-> FALSE, time |-> 0, faults |-> 0]
  /\ inv = [i \in Invocations |-> NoInv]
  /\ pool = [i \in Invocations |-> [p \in Stages |->
               IF i = 1 /\ p = "location" THEN NewPool(PoolWorkers, PoolWorkers) ELSE NoPool]]
  /\ writer = [i \in Invocations |-> NoWriter]
  /\ harness = [pc |-> "new", put |-> 0, sentinel |-> FALSE, sentinel_before_stop |-> FALSE]

PoolNext ==
  \/ PoolStart
  \/ PoolPut
  \/ PoolPutSentinel
  \/ PoolStop
  \/ PoolStopReturn
  \/ PoolWorker

SpecPool == PoolInit /\ [][PoolNext]_vars

\* The event loop runs every task that is ready, and the caller goes on.
FairSpecPool ==
  /\ SpecPool
  /\ WF_vars(PoolStart)
  /\ WF_vars(PoolStopReturn)
  /\ \A w \in 1..PoolWorkers : WF_vars(WorkerStep(1, "location", w))

----------------------------------------------------------------------------
(* A stand-alone writer: the process_write_queue task, and a producer that *)
(* puts items 1, 2, ... and then one sentinel on the write queue.          *)

\* write_queue.put(item) before the sentinel
WritePut ==
  /\ ~harness.sentinel
  /\ harness.put < MaxItems
  /\ writer' = [writer EXCEPT ![1].queue = Append(@, harness.put + 1)]
  /\ harness' = [harness EXCEPT !.put = @ + 1]
  /\ UNCHANGED <<db_state, db_runs, store, mgr, cache, proc, inv, pool>>

\* write_queue.put(None)
WritePutSentinel ==
  /\ ~harness.sentinel
  /\ writer' = [writer EXCEPT ![1].queue = Append(@, Sentinel)]
  /\ harness' = [harness EXCEPT !.sentinel = TRUE]
  /\ UNCHANGED <<db_state, db_runs, store, mgr, cache, proc, inv, pool>>

\* asyncio.create_task(process_write_queue(write_queue)): the task waits
WriterInit ==
  /\ db_state = NoRow
  /\ db_runs = <<>>
  /\ store = {}
  /\ mgr = NoMgr
  /\ cache = <<>>
  /\ proc = [restarts |-> 0, should_stop |-> FALSE, time |-> 0, faults |-> 0]
  /\ inv = [i \in Invocations |-> NoInv]
  /\ pool = [i \in Invocations |-> NoPools]
  /\ writer = [i \in Invocations |-> IF i = 1 THEN [NoWriter EXCEPT !.pc = "waiting"]
                                                ELSE NoWriter]
  /\ harness = [pc |-> "started", put |-> 0, sentinel |-> FALSE,
                sentinel_before_stop |-> FALSE]

WriterNext ==
  \/ WritePut
  \/ WritePutSentinel
  \/ WriterGet(1)
  \/ WriterWrite(1)

SpecWriter == WriterInit /\ [][WriterNext]_vars

----------------------------------------------------------------------------
(* The pipeline under its scheduler: invocations one after another, store  *)
(* faults, signals and restarts.                                           *)

\* The pipeline_state row outlives the process.  At the start it is absent,
\* or it is idle with a watermark 1..MaxWatermark that an earlier caller of
\* the manager wrote (update_progress and complete_run take a
\* last_processed_id).
MaxWatermark == 1

NoHarness == [pc |-> "none", put |-> 0, sentinel |-> FALSE, sentinel_before_stop |-> FALSE]

Init ==
  /\ \E k \in 0..MaxWatermark :
       db_state = IF k = 0 THEN NoRow
                  ELSE [exists |-> TRUE, status |-> "idle", last_processed_id |-> k,
                        last_run_id |-> NoId, records_processed |-> 0]
  /\ db_runs = <<>>
  /\ store = {}
  /\ mgr = NoMgr
  /\ cache = <<>>
  /\ proc = [restarts |-> 0, should_stop |-> FALSE, time |-> 0, faults |-> 0]
  /\ inv = [i \in Invocations |-> NoInv]
  /\ pool = [i \in Invocations |-> NoPools]
  /\ writer = [i \in Invocations |-> NoWriter]
  /\ harness = NoHarness

RunStep(i) ==
  \/ CheckRunning(i)
  \/ GetLastProcessedId(i)
  \/ StartRun(i)
  \/ FetchPage(i)
  \/ \E p \in Stages : StopReturn(i, p)
  \/ CompleteRun(i)
  \/ FailRun(i)
  \/ \E p \in Stages : \E w \in 1..StageWorkers : WorkerStep(i, p, w)
  \/ WriterGet(i)
  \/ WriterWrite(i)

Next ==
  \/ \E i \in Invocations : Invoke(i)
  \/ \E i \in Invocations : RunStep(i)
  \/ \E i \in Invocations : Cancel(i)
  \/ Restart

Spec == Init /\ [][Next]_vars

----------------------------------------------------------------------------
(* Entry points that call run_pipeline in one event loop without waiting   *)
(* for each other: the invocations share the manager and the cache of the  *)
(* process and interleave at every await.                                  *)

\* The process has made one run before, which completed: every id of the
\* source is in the cache and in the store, the run row is completed.
FirstRun ==
  LET n == Min(NumRecords, MAX_RECORDS_PER_BATCH)
      ids == [k \in 1..n |-> k]
      sr == start_run(NewMgr, <<>>, get_current_state(NoRow, "ok").st,
                      run_metadata(NoId), "ok", "ok")
      cr == complete_run(sr.mgr, sr.runs, sr.st, n, NoId, [end_time |-> Now], "ok", "ok")
  IN [mgr |-> cr.mgr, runs |-> cr.runs, st |-> cr.st, store |-> Range(ids),
      cache |-> FilterNew(ids, {}, <<>>, 0).cache]

ConcInit ==
  /\ db_state = FirstRun.st
  /\ db_runs = FirstRun.runs
  /\ store = FirstRun.store
  /\ mgr = FirstRun.mgr
  /\ cache = FirstRun.cache
  \* the store answers every statement from here on: no failure is left
  /\ proc = [restarts |-> 0, should_stop |-> FALSE, time |-> 0, faults |-> MaxFaults]
  /\ inv = [i \in Invocations |-> NoInv]
  /\ pool = [i \in Invocations |-> NoPools]
  /\ writer = [i \in Invocations |-> NoWriter]
  /\ harness = NoHarness

\* The steps of an invocation whose pages hold cached ids only: no item
\* reaches a stage queue, the queues carry the sentinels.
ConcStep(i) ==
  \/ CheckRunning(i)
  \/ GetLastProcessedId(i)
  \/ StartRun(i)
  \/ FetchPage(i)
  \/ \E p \in Stages : StopReturn(i, p)
  \/ CompleteRun(i)
  \/ FailRun(i)
  \/ \E p \in Stages : \E w \in 1..StageWorkers :
        \/ WorkerBegin(i, p, w)
        \/ WorkerGet(i, p, w)
        \/ WorkerTimeout(i, p, w)
  \/ WriterGet(i)

ConcNext ==
  \/ \E i \in Invocations : InvokeConcurrent(i)
  \/ \E i \in Invocations : ConcStep(i)

SpecConc == ConcInit /\ [][ConcNext]_vars

----------------------------------------------------------------------------
(* A stand-alone MemoryCache(max_size, ttl) and one caller.  harness holds *)
(* the constructor arguments, the last call (op, key or keys), what it     *)
(* returned (ret.b a bool, ret.v a value or None, ret.n a size, ret.out a  *)
(* list of keys), whether the cache was full and the key new when set was  *)
(* called, and the keys ever set.  time.time() is proc.time.               *)

MaxCacheSize == 2
MaxTTL == 1
MaxTime == 2
NumKeys == 3
MaxFilterLen == 2

KeySet == 1..NumKeys

\* the lists of keys handed to filter_non_existing
KeyLists == UNION {[1..n -> KeySet] : n \in 0..MaxFilterLen}

NoRet == [b |-> FALSE, v |-> Null, n |-> 0, out |-> <<>>]

CacheCall(op, key, keys, ret, full) ==
  [harness EXCEPT !.op = op, !.key = key, !.keys = keys, !.ret = ret, !.full = full]

\* MemoryCache(max_size, ttl)
CacheInit ==
  /\ db_state = NoRow
  /\ db_runs = <<>>
  /\ store = {}
  /\ mgr = NoMgr
  /\ cache = <<>>
  /\ proc = [restarts |-> 0, should_stop |-> FALSE, time |-> 0, faults |-> 0]
  /\ inv = [i \in Invocations |-> NoInv]
  /\ pool = [i \in Invocations |-> NoPools]
  /\ writer = [i \in Invocations |-> NoWriter]
  /\ \E m \in 1..MaxCacheSize, ttl \in 0..MaxTTL :
       harness = [pc |-> "cache", max_size |-> m, ttl |-> ttl, op |-> "init",
                  key |-> NoId, keys |-> <<>>, ret |-> NoRet, full |-> FALSE,
                  ever_set |-> {}]

CacheSet ==
  \E key \in KeySet :
    /\ cache' = mc_set(cache, key, "v", proc.time, harness.max_size, harness.ttl)
    /\ harness' = [CacheCall("set", key, <<>>, [NoRet EXCEPT !.b = TRUE],
                             Len(cache) >= harness.max_size /\ key \notin CacheKeys(cache))
                     EXCEPT !.ever_set = @ \cup {key}]
    /\ UNCHANGED <<db_state, db_runs, store, mgr, proc, inv, pool, writer>>

CacheExists ==
  \E key \in KeySet :
    LET ex == mc_exists(cache, key, proc.time, harness.ttl) IN
    /\ cache' = ex.cache
    /\ harness' = CacheCall("exists", key, <<>>, [NoRet EXCEPT !.b = ex.ret], FALSE)
    /\ UNCHANGED <<db_state, db_runs, store, mgr, proc, inv, pool, writer>>

CacheGet ==
  \E key \in KeySet :
    LET g == mc_get(cache, key, proc.time, harness.ttl) IN
    /\ cache' = g.cache
    /\ harness' = CacheCall("get", key, <<>>, [NoRet EXCEPT !.v = g.ret], FALSE)
    /\ UNCHANGED <<db_state, db_runs, store, mgr, proc, inv, pool, writer>>

CacheDelete ==
  \E key \in KeySet :
    LET d == mc_delete(cache, key) IN
    /\ cache' = d.cache
    /\ harness' = CacheCall("delete", key, <<>>, [NoRet EXCEPT !.b = d.ret], FALSE)
    /\ UNCHANGED <<db_state, db_runs, store, mgr, proc, inv, pool, writer>>

CacheClear ==
  /\ cache' = mc_clear(cache)
  /\ harness' = CacheCall("clear", NoId, <<>>, NoRet, FALSE)
  /\ UNCHANGED <<db_state, db_runs, store, mgr, proc, inv, pool, writer>>

CacheSize ==
  /\ harness' = CacheCall("size", NoId, <<>>, [NoRet EXCEPT !.n = mc_size(cache)], FALSE)
  /\ UNCHANGED <<db_state, db_runs, store, mgr, cache, proc, inv, pool, writer>>

CacheFilter ==
  \E keys \in KeyLists :
    LET f == mc_filter_non_existing(cache, keys, proc.time, harness.ttl) IN
    /\ cache' = f.cache
    /\ harness' = CacheCall("filter", NoId, keys, [NoRet EXCEPT !.out = f.ret], FALSE)
    /\ UNCHANGED <<db_state, db_runs, store, mgr, proc, inv, pool, writer>>

\* the clock moves on between two calls
CacheTick ==
  /\ proc.time < MaxTime
  /\ proc' = [proc EXCEPT !.time = @ + 1]
  /\ harness' = CacheCall("tick", NoId, <<>>, NoRet, FALSE)
  /\ UNCHANGED <<db_state, db_runs, store, mgr, cache, inv, pool, writer>>

CacheNext ==
  \/ CacheSet
  \/ CacheExists
  \/ CacheGet
  \/ CacheDelete
  \/ CacheClear
  \/ CacheSize
  \/ CacheFilter
  \/ CacheTick

SpecCache == CacheInit /\ [][CacheNext]_vars

----------------------------------------------------------------------------
(* One MemoryCache and two threads.  A call that runs "with self._lock" is *)
(* one step; filter_non_existing takes the lock once per key, inside       *)
(* exists, so it is one step per key and the other thread runs in between. *)
(* harness holds the filter call of the first thread (fpc, keys, idx, the  *)
(* result so far in out) and snaps, the sets of present keys that the      *)
(* cache went through from the call to its return.  The clock stands.      *)

\* the keys exists would answer True for
PresentKeys(c, t, ttl) ==
  {key \in KeySet : key \in CacheKeys(c) /\ ~mc_expired(c[CacheIndex(c, key)], t, ttl)}

RECURSIVE mc_set_many(_, _, _, _, _)
\* MemoryCache.set_many: every set under one hold of the lock
mc_set_many(c, keys, t, max_size, ttl) ==
  IF keys = <<>> THEN c
  ELSE mc_set_many(mc_set(c, Head(keys), "v", t, max_size, ttl), Tail(keys),
                   t, max_size, ttl)

\* the key lists of a dict: no key twice
DistinctKeyLists == {ks \in KeyLists : Cardinality(Range(ks)) = Len(ks)}

\* the other thread's call has changed the cache within a filter call
Snap(c) ==
  IF harness.fpc = "running"
    THEN harness.snaps \cup {PresentKeys(c, proc.time, harness.ttl)}
    ELSE harness.snaps

ThreadsInit ==
  /\ db_state = NoRow
  /\ db_runs = <<>>
  /\ store = {}
  /\ mgr = NoMgr
  /\ cache = <<>>
  /\ proc = [restarts |-> 0, should_stop |-> FALSE, time |-> 0, faults |-> 0]
  /\ inv = [i \in Invocations |-> NoInv]
  /\ pool = [i \in Invocations |-> NoPools]
  /\ writer = [i \in Invocations |-> NoWriter]
  /\ \E m \in 1..MaxCacheSize, ttl \in 0..MaxTTL :
       harness = [pc |-> "threads", max_size |-> m, ttl |-> ttl, fpc |-> "idle",
                  keys |-> <<>>, idx |-> 1, out |-> <<>>, snaps |-> {}]

\* the first thread calls filter_non_existing(keys)
FilterCall ==
  \E keys \in KeyLists :
    /\ harness.fpc \in {"idle", "returned"}
    /\ harness' = [harness EXCEPT !.fpc = IF keys = <<>> THEN "returned" ELSE "running",
                                  !.keys = keys, !.idx = 1, !.out = <<>>,
                                  !.snaps = {PresentKeys(cache, proc.time, harness.ttl)}]
    /\ UNCHANGED <<db_state, db_runs, store, mgr, cache, proc, inv, pool, writer>>

\* the next "not self.exists(item)" of the comprehension; after the last
\* one the list is returned
FilterExists ==
  /\ harness.fpc = "running"
  /\ LET key == harness.keys[harness.idx]
         ex == mc_exists(cache, key, proc.time, harness.ttl)
     IN /\ cache' = ex.cache
        /\ harness' = [harness EXCEPT
              !.out = IF ex.ret THEN @ ELSE Append(@, key),
              !.idx = @ + 1,
              !.fpc = IF harness.idx = Len(harness.keys) THEN "returned" ELSE "running"]
  /\ UNCHANGED <<db_state, db_runs, store, mgr, proc, inv, pool, writer>>

ThreadSet ==
  \E key \in KeySet :
    /\ cache' = mc_set(cache, key, "v", proc.time, harness.max_size, harness.ttl)
    /\ harness' = [harness EXCEPT !.snaps = Snap(cache')]
    /\ UNCHANGED <<db_state, db_runs, store, mgr, proc, inv, pool, writer>>

ThreadSetMany ==
  \E keys \in DistinctKeyLists :
    /\ cache' = mc_set_many(cache, keys, proc.time, harness.max_size, harness.ttl)
    /\ harness' = [harness EXCEPT !.snaps = Snap(cache')]
    /\ UNCHANGED <<db_state, db_runs, store, mgr, proc, inv, pool, writer>>

ThreadDelete ==
  \E key \in KeySet :
    /\ cache' = mc_delete(cache, key).cache
    /\ harness' = [harness EXCEPT !.snaps = Snap(cache')]
    /\ UNCHANGED <<db_state, db_runs, store, mgr, proc, inv, pool, writer>>

ThreadClear ==
  /\ cache' = mc_clear(cache)
  /\ harness' = [harness EXCEPT !.snaps = Snap(cache')]
  /\ UNCHANGED <<db_state, db_runs, store, mgr, proc, inv, pool, writer>>

ThreadsNext ==
  \/ FilterCall
  \/ FilterExists
  \/ ThreadSet
  \/ ThreadSetMany
  \/ ThreadDelete
  \/ ThreadClear

SpecCacheThreads == ThreadsInit /\ [][ThreadsNext]_vars

----------------------------------------------------------------------------
(* One LocationWorkerPool(min_workers, max_workers) with its auto-scaler,  *)
(* a producer, and callers of add_worker and remove_worker.  harness holds *)
(* the caller (pc, put, sentinel), the auto_scale task (scaler), the       *)
(* pool's throughput_history and last_count, and the last add_worker or    *)
(* remove_worker call: op, ret, and calls, the parity of the number of     *)
(* such calls so far, which changes in exactly the steps that make one;    *)
(* cpu is the last psutil sample of the auto-scaler and ticks the parity   *)
(* of the number of its adjustments.                                       *)

MaxPoolSize == 2         \* min_workers is 0..MaxPoolSize, max_workers 1..MaxPoolSize
MaxScaleItems == 1       \* items the producer enqueues at most

ScalePool == pool[1]["location"]

\* an add_worker or remove_worker call went from pool a to pool b
Called(h, op, a, b) == [h EXCEPT !.op = op, !.ret = (a # b), !.calls = 1 - @]

\* LocationWorkerPool(...): min_workers may exceed max_workers (the defaults
\* are 5 and 4 * cpu_count)
ScaleInit ==
  /\ db_state = NoRow
  /\ db_runs = <<>>
  /\ store = {}
  /\ mgr = NoMgr
  /\ cache = <<>>
  /\ proc = [restarts |-> 0, should_stop |-> FALSE, time |-> 0, faults |-> 0]
  /\ inv = [i \in Invocations |-> NoInv]
  /\ \E minw \in 0..MaxPoolSize, maxw \in 1..MaxPoolSize :
       pool = [i \in Invocations |-> [p \in Stages |->
                 IF i = 1 /\ p = "location" THEN NewPool(minw, maxw) ELSE NoPool]]
  /\ writer = [i \in Invocations |-> NoWriter]
  /\ harness = [pc |-> "new", put |-> 0, sentinel |-> FALSE,
                sentinel_before_stop |-> FALSE, scaler |-> "none",
                throughput_history |-> <<>>, last_count |-> 0,
                op |-> "none", ret |-> FALSE, calls |-> 0,
                cpu |-> "none", ticks |-> 0]

\* WorkerPool.start: the auto_scale task is created, then min_workers calls
\* of add_worker; nothing in it suspends
ScaleStart ==
  /\ harness.pc = "new"
  /\ pool' = [pool EXCEPT ![1]["location"] = start(@)]
  /\ harness' = [harness EXCEPT !.pc = "started", !.scaler = "running"]
  /\ UNCHANGED <<db_state, db_runs, store, mgr, cache, proc, inv, writer>>

\* a direct call of add_worker()
ScaleAdd ==
  /\ harness.pc \in {"new", "started"}
  /\ pool' = [pool EXCEPT ![1]["location"] = add_worker(@)]
  /\ harness' = Called(harness, "add", ScalePool, add_worker(ScalePool))
  /\ UNCHANGED <<db_state, db_runs, store, mgr, cache, proc, inv, writer>>

\* a direct call of remove_worker()
ScaleRemove ==
  /\ harness.pc \in {"new", "started"}
  /\ pool' = [pool EXCEPT ![1]["location"] = remove_worker(@)]
  /\ harness' = Called(harness, "remove", ScalePool, remove_worker(ScalePool))
  /\ UNCHANGED <<db_state, db_runs, store, mgr, cache, proc, inv, writer>>

\* One round of the auto_scale loop, up to its sleep.  Whether the
\* adjustment interval has passed (due) and what psutil.cpu_percent()
\* reports against the two thresholds (cpu) are not determined by the pool.
AutoScale ==
  /\ harness.scaler = "running"
  /\ IF ScalePool.should_stop
       THEN /\ harness' = [harness EXCEPT !.scaler = "done"]
            /\ pool' = pool
       ELSE \E due \in BOOLEAN, cpu \in {"high", "mid", "low"} :
              LET pl == ScalePool
                  \* LocationWorkerPool.calculate_throughput
                  throughput == pl.processed_count - harness.last_count
                  history == throughput_append(harness.throughput_history, throughput)
                  measured == [harness EXCEPT !.throughput_history = history,
                                              !.last_count = pl.processed_count,
                                              !.cpu = cpu, !.ticks = 1 - @]
              IN IF ~due THEN UNCHANGED <<pool, harness>>
                 ELSE IF cpu = "high"
                   THEN /\ pool' = [pool EXCEPT ![1]["location"] = remove_worker(pl)]
                        /\ harness' = Called(measured, "remove", pl, remove_worker(pl))
                 ELSE IF cpu = "low" /\ should_scale_up(history)
                   THEN /\ pool' = [pool EXCEPT ![1]["location"] = add_worker(pl)]
                        /\ harness' = Called(measured, "add", pl, add_worker(pl))
                 ELSE /\ pool' = pool
                      /\ harness' = measured
  /\ UNCHANGED <<db_state, db_runs, store, mgr, cache, proc, inv, writer>>

\* location_queue.put(item) before the sentinel
ScalePut ==
  /\ harness.pc \in {"new", "started"}
  /\ ~harness.sentinel
  /\ harness.put < MaxScaleItems
  /\ pool' = [pool EXCEPT ![1]["location"].queue = Append(@, harness.put + 1)]
  /\ harness' = [harness EXCEPT !.put = @ + 1]
  /\ UNCHANGED <<db_state, db_runs, store, mgr, cache, proc, inv, writer>>

ScaleNext ==
  \/ ScaleStart
  \/ ScaleAdd
  \/ ScaleRemove
  \/ AutoScale
  \/ ScalePut
  \/ PoolPutSentinel
  \/ PoolStop
  \/ PoolStopReturn
  \/ \E w \in 1..MaxPoolSize : WorkerStep(1, "location", w)

SpecScale == ScaleInit /\ [][ScaleNext]_vars

----------------------------------------------------------------------------
(* process_subscribers alone: the fetching loop over a source of NumSubs   *)
(* subscribers (the cursor of a subscriber is its id), with the stage      *)
(* queues it fills and the dedup cache.  harness holds the arguments       *)
(* (max_limit), the setting RECORDS_PER_PAGE (rpp), the source (src, the   *)
(* record behind every id), the locals of the loop, processed_ids of the   *)
(* SubscriberPipeline, and as history: survivors, the ids that passed the  *)
(* dedup filter; raised, a page handling has raised; source_done, the      *)
(* source has answered with an empty page or without an end cursor; stop,  *)
(* what ended the loop.                                                    *)

NumSubs == 3             \* subscribers the source holds
MaxLimit == 3            \* max_limit is 1..MaxLimit
MaxPerPage == 2          \* RECORDS_PER_PAGE is 1..MaxPerPage

\* The records a source holds: a work email that passes the gate, a
\* personal email, no email address, an inactive work email, a work email
\* from a country of low purchase power, and a work email whose "state" is
\* null, for which subscriber.get("state", "").lower() raises.
SubKinds ==
  {[email_address |-> TRUE, work |-> TRUE, state |-> "active", low_purchase_power |-> FALSE],
   [email_address |-> TRUE, work |-> FALSE, state |-> "active", low_purchase_power |-> FALSE],
   [email_address |-> FALSE, work |-> FALSE, state |-> "active", low_purchase_power |-> FALSE],
   [email_address |-> TRUE, work |-> TRUE, state |-> "inactive", low_purchase_power |-> FALSE],
   [email_address |-> TRUE, work |-> TRUE, state |-> "active", low_purchase_power |-> TRUE],
   [email_address |-> TRUE, work |-> TRUE, state |-> Null, low_purchase_power |-> FALSE]}

\* the gating of a subscriber raises
gate_raises(sub) == sub.work /\ sub.state = Null

\* limit passed to fetch_subscribers without the rest of max_limit
page_limit_NoCap(rpp, max_limit, processed_count) == rpp

\* limit=min(settings.RECORDS_PER_PAGE, max_limit - processed_count)
page_limit(rpp, max_limit, processed_count) == Min(rpp, max_limit - processed_count)

\* SubscriberPipeline.fetch_subscribers on a 200 response: the source
\* answers with n records after the cursor (fewer at its end), and on its
\* last page with an end cursor or with none (last_null).
fetch_page(processed_ids, after_cursor, n, last_null) ==
  LET last == Min(after_cursor + n, NumSubs)
      page == [k \in 1..(last - after_cursor) |-> after_cursor + k]
      fresh == SeqFilter(page, Range(page) \ processed_ids)
  IN [page |-> page,
      subscribers |-> fresh,
      end_cursor |-> IF page = <<>> \/ (last = NumSubs /\ last_null) THEN NoId ELSE last,
      processed_ids |-> processed_ids \cup Range(page)]

RECURSIVE enqueue_new(_, _, _)
\* process_subscribers, the queueing loop over new_subscribers, until it
\* ends or the gating of a subscriber raises
enqueue_new(pls, new, src) ==
  IF new = <<>> THEN [pools |-> pls, raised |-> FALSE]
  ELSE LET id == Head(new)
           sub == src[id]
           put2 == [pls EXCEPT !["location"].queue = Append(@, id),
                               !["referrer"].queue = Append(@, id)]
       IN IF ~sub.email_address THEN enqueue_new(pls, Tail(new), src)
          ELSE IF gate_raises(sub) THEN [pools |-> put2, raised |-> TRUE]
          ELSE IF linkedin_gate(sub)
            THEN enqueue_new([put2 EXCEPT !["linkedin"].queue = Append(@, id)],
                             Tail(new), src)
          ELSE enqueue_new(put2, Tail(new), src)

RECURSIVE warm_cache(_, _)
\* the cache after cache_manager.set for every id of the set, in id order
warm_cache(ids, t) ==
  IF ids = {} THEN <<>>
  ELSE LET m == CHOOSE x \in ids : \A y \in ids : y <= x
       IN cache_set(warm_cache(ids \ {m}, t), m, t)

\* process_subscribers is called: queues and pools exist, no worker has
\* been started; the cache holds the ids earlier runs have seen
FetchInit ==
  /\ db_state = NoRow
  /\ db_runs = <<>>
  /\ store = {}
  /\ mgr = NoMgr
  /\ \E cached \in SUBSET (1..NumSubs) : cache = warm_cache(cached, 0)
  /\ proc = [restarts |-> 0, should_stop |-> FALSE, time |-> 0, faults |-> 0]
  /\ inv = [i \in Invocations |-> NoInv]
  /\ pool = [i \in Invocations |-> [p \in Stages |->
               IF i = 1 THEN NewPool(StageWorkers, CPU_COUNT * 4) ELSE NoPool]]
  /\ writer = [i \in Invocations |-> NoWriter]
  /\ \E src \in [1..NumSubs -> SubKinds], max_limit \in 1..MaxLimit, rpp \in 1..MaxPerPage :
       harness = [pc |-> "fetching", src |-> src, max_limit |-> max_limit, rpp |-> rpp,
                  processed_count |-> 0, next_cursor |-> NoId, processed_ids |-> {},
                  existing |-> {}, survivors |-> <<>>, raised |-> FALSE,
                  source_done |-> FALSE, stop |-> "none"]

\* `while processed_count < max_limit` is false: return processed_count
FetchReturn ==
  /\ harness.pc = "fetching"
  /\ harness.processed_count >= harness.max_limit
  /\ harness' = [harness EXCEPT !.pc = "returned", !.stop = "max"]
  /\ UNCHANGED <<db_state, db_runs, store, mgr, cache, proc, inv, pool, writer>>

\* fetch_subscribers returns None: the response status is neither 200 nor
\* 5xx; the loop breaks
FetchError ==
  /\ harness.pc = "fetching"
  /\ harness.processed_count < harness.max_limit
  /\ harness' = [harness EXCEPT !.pc = "returned", !.stop = "error_response"]
  /\ UNCHANGED <<db_state, db_runs, store, mgr, cache, proc, inv, pool, writer>>

\* One round of the loop on a 200 response: fetch, break on an empty
\* list, filter, queue, count, break without a next cursor; an exception
\* while queueing goes to the except clause and on to the next round.
FetchRound ==
  /\ harness.pc = "fetching"
  /\ harness.processed_count < harness.max_limit
  /\ \E last_null \in BOOLEAN :
     \E n \in 1..page_limit(harness.rpp, harness.max_limit, harness.processed_count) :
       LET h == harness
           res == fetch_page(h.processed_ids, h.next_cursor, n, last_null)
           done == h.source_done \/ res.page = <<>> \/ res.end_cursor = NoId
           fl == FilterNew(res.subscribers, h.existing, cache, proc.time)
           en == enqueue_new(pool[1], fl.new, h.src)
       IN IF res.subscribers = <<>>
            THEN /\ harness' = [h EXCEPT !.pc = "returned",
                                          !.processed_ids = res.processed_ids,
                                          !.source_done = done,
                                          !.stop = IF res.page = <<>> THEN "empty_page"
                                                   ELSE "all_duplicates"]
                 /\ UNCHANGED <<cache, pool>>
            ELSE /\ cache' = fl.cache
                 /\ pool' = [pool EXCEPT ![1] = en.pools]
                 /\ harness' =
                      IF en.raised
                        THEN [h EXCEPT !.processed_ids = res.processed_ids,
                                       !.next_cursor = res.end_cursor,
                                       !.existing = fl.existing,
                                       !.survivors = @ \o fl.new,
                                       !.source_done = done,
                                       !.raised = TRUE]
                        ELSE [h EXCEPT !.processed_ids = res.processed_ids,
                                       !.next_cursor = res.end_cursor,
                                       !.existing = fl.existing,
                                       !.survivors = @ \o fl.new,
                                       !.source_done = done,
                                       !.processed_count = @ + Len(fl.new),
                                       !.pc = IF res.end_cursor = NoId
                                                THEN "returned" ELSE "fetching",
                                       !.stop = IF res.end_cursor = NoId
                                                  THEN "no_cursor" ELSE "none"]
  /\ UNCHANGED <<db_state, db_runs, store, mgr, proc, inv, writer>>

FetchNext ==
  \/ FetchReturn
  \/ FetchError
  \/ FetchRound

SpecFetch == FetchInit /\ [][FetchNext]_vars

\* the event loop resumes the fetching task whenever its fetch has returned
FairSpecFetch == SpecFetch /\ WF_vars(FetchNext)

----------------------------------------------------------------------------
(* The subscribers table under write_batch, one batch after another.  In   *)
(* this specification store is the table as the list of its rows, each     *)
(* [id, fields], fields giving the column each stage fills.  A subscriber  *)
(* dict handed to the writer is [id, stage, value]: the copy a stage made, *)
(* with that stage's column set to value.  harness holds the last batch,   *)
(* whether its transaction committed (ok), and writes, the parity of the   *)
(* number of write_batch calls.                                            *)

NumRows == 2             \* ids of the subscribers written
MaxBatchLen == 2         \* subscribers in a batch
NumValues == 2           \* values a stage may produce for its column

StageValues == {"v1", "v2", "v3"}

\* the values stages produce: the first NumValues of StageValues
Values == {v \in StageValues : \E n \in 1..NumValues : v = <<"v1", "v2", "v3">>[n]}

\* the stages whose copies reach the writer here; the LinkedIn stage hands
\* over its copy like the other two
WritingStages == {"location", "referrer"}

SubscriberDicts == [id : 1..NumRows, stage : WritingStages, value : Values]

NoFields == [c \in WritingStages |-> Null]

Batches == UNION {[1..n -> SubscriberDicts] : n \in 1..MaxBatchLen}

\* _bulk_process for one subscriber: SELECT id ... WHERE id = $1, then
\* UPDATE ... WHERE id = $1 with the keys of the dict, or INSERT
upsert_one(table, sub) ==
  IF \E k \in 1..Len(table) : table[k].id = sub.id
    THEN [k \in 1..Len(table) |->
            IF table[k].id = sub.id
              THEN [table[k] EXCEPT !.fields[sub.stage] = sub.value]
              ELSE table[k]]
    ELSE Append(table, [id |-> sub.id, fields |-> [NoFields EXCEPT ![sub.stage] = sub.value]])

RECURSIVE bulk_process(_, _)
bulk_process(table, subs) ==
  IF subs = <<>> THEN table
  ELSE bulk_process(upsert_one(table, Head(subs)), Tail(subs))

RECURSIVE insert_all(_, _)
\* every subscriber of the batch inserted as a new row
insert_all(table, subs) ==
  IF subs = <<>> THEN table
  ELSE insert_all(Append(table, [id |-> Head(subs).id,
                                 fields |-> [NoFields EXCEPT ![Head(subs).stage] = Head(subs).value]]),
                  Tail(subs))

\* bulk_update_or_create with INSERT only
bulk_update_or_create_InsertOnly(table, subs, ok) ==
  IF ok THEN insert_all(table, subs) ELSE table

\* SubscriberModel.bulk_update_or_create: one transaction, rolled back as
\* a whole when a statement raises (~ok)
bulk_update_or_create(table, subs, ok) ==
  IF ok THEN bulk_process(table, subs) ELSE table

UpsertInit ==
  /\ db_state = NoRow
  /\ db_runs = <<>>
  /\ store = <<>>
  /\ mgr = NoMgr
  /\ cache = <<>>
  /\ proc = [restarts |-> 0, should_stop |-> FALSE, time |-> 0, faults |-> 0]
  /\ inv = [i \in Invocations |-> NoInv]
  /\ pool = [i \in Invocations |-> NoPools]
  /\ writer = [i \in Invocations |-> NoWriter]
  /\ harness = [pc |-> "upsert", batch |-> <<>>, ok |-> FALSE, writes |-> 0]

\* write_batch(subscribers) up to the return of bulk_update_or_create
WriteBatch ==
  \E batch \in Batches, ok \in BOOLEAN :
    /\ store' = bulk_update_or_create(store, batch, ok)
    /\ harness' = [harness EXCEPT !.batch = batch, !.ok = ok, !.writes = 1 - @]
    /\ UNCHANGED <<db_state, db_runs, mgr, cache, proc, inv, pool, writer>>

UpsertNext == WriteBatch

SpecUpsert == UpsertInit /\ [][UpsertNext]_vars

----------------------------------------------------------------------------
(* Properties of the stand-alone pool                                      *)

\* number of occurrences of x in the sequence s
Count(s, x) == Cardinality({k \in 1..Len(s) : s[k] = x})

ThePool == pool[1]["location"]

\* C1: k items and then one sentinel are enqueued, stop() is called: when
\* stop() has returned every item has been dequeued exactly once, every
\* worker has exited and no item is left in the queue.
C1_StopDrainsQueue ==
  (harness.pc = "stopped" /\ harness.sentinel_before_stop) =>
    /\ all_done(ThePool)
    /\ \A x \in 1..harness.put : Count(ThePool.taken, x) = 1
    /\ \A k \in 1..Len(ThePool.queue) : ThePool.queue[k] = Sentinel

\* C2 as stated: one sentinel injected, and once all N workers have
\* terminated the queue is empty, with at most N re-insertions.
C2_QueueEndsEmpty ==
  (harness.sentinel /\ harness.pc # "new" /\ all_done(ThePool)) =>
    (ThePool.queue = <<>> /\ ThePool.reinserted <= PoolWorkers)

C2_Terminated ==
  (harness.sentinel /\ harness.pc # "new" /\ all_done(ThePool)) =>
    /\ Count(ThePool.queue, Sentinel) = 1
    /\ ThePool.reinserted <= PoolWorkers
    /\ (~ThePool.should_stop => ThePool.queue = <<Sentinel>>)

\* C2 as amended: one sentinel injected into the queue of a started pool
\* leads to all N workers terminating; once they have terminated exactly
\* one sentinel is in the queue (the one the last worker put back; nothing
\* else when stop() was not called), and it was re-inserted at most N times.
C2_SentinelStopsAllWorkers ==
  /\ []C2_Terminated
  /\ (harness.sentinel /\ harness.pc # "new") ~> all_done(ThePool)

\* All N workers left through the sentinel, without stop().
C2_Witness ==
  /\ harness.sentinel
  /\ ~ThePool.should_stop
  /\ all_done(ThePool)
  /\ ThePool.reinserted = PoolWorkers
  /\ harness.put >= 1

----------------------------------------------------------------------------
(* Properties of runs                                                      *)

\* the run rows with status running
RunningRows == {r \in 1..Len(db_runs) : db_runs[r].status = "running"}

\* C3: for every interleaving of concurrent run_pipeline invocations, at
\* no point do two run rows of the pipeline have status running.
C3_AtMostOneRunning == Cardinality(RunningRows) <= 1

\* C4: start_run called while the persisted status is running fails: it
\* creates no run row and leaves the run rows and the pipeline state as
\* they were.
C4_StartRunRefused ==
  [][\A i \in Invocations :
       (inv[i].pc = "start_run" /\ inv'[i].pc # "start_run" /\ db_state.status = "running")
         => (inv'[i].pc = "raised" /\ db_runs' = db_runs /\ db_state' = db_state)]_vars

\* C5: when pipeline_state.last_processed_id = k at run start, the first
\* page the run requests is the page after k.
C5_ResumesFromWatermark ==
  \A i \in Invocations :
    (inv[i].requests # <<>> /\ inv[i].last_processed_id # NoId)
      => inv[i].requests[1] = inv[i].last_processed_id

\* the ids the source holds
SourceIds == 1..NumRecords

\* C6: when a run has failed after scheduling records and a subsequent run
\* has returned True, the persisted ids are the source ids.
C6_FailedThenRunStoresAll ==
  \A i, j \in Invocations :
    (/\ i < j
     /\ inv[i].pc = "returned" /\ inv[i].retval = "False" /\ inv[i].err # Null
     /\ inv[i].processed_count >= 1
     /\ inv[j].pc = "returned" /\ inv[j].retval = "True")
      => store = SourceIds

\* C7: after a run that processed at least one record has ended (no later
\* run has begun), the persisted last_processed_id is the id of the last
\* record that run processed.
C7_WatermarkFollowsProgress ==
  \A i \in Invocations :
    (/\ inv[i].pc = "returned" /\ inv[i].retval = "True"
     /\ inv[i].processed_count >= 1
     /\ inv[i].last_id \in store
     /\ \A j \in Invocations : j > i => inv[j].pc = "idle")
      => db_state.last_processed_id = inv[i].last_id

\* C8: once run_pipeline has returned or has been cancelled, the row of
\* the run it started is completed or failed.
C8_StartedRunFinalized ==
  \A i \in Invocations :
    (inv[i].pc \in {"returned", "cancelled"} /\ inv[i].run_id # NoId)
      => db_runs[inv[i].run_id].status \in {"completed", "failed"}

\* C9: in a restarted process no invocation is skipped on account of a
\* running status that no live run holds.
C9_SurvivesRestart ==
  \A i \in Invocations :
    (inv[i].epoch >= 1 /\ inv[i].pc \in {"returned", "not_run"}) => ~inv[i].stale

\* what the except clause of invocation i leaves behind, as a step
FailureRecorded(i) ==
  /\ inv'[i].pc = "returned"
  /\ inv'[i].retval = "False"
  /\ inv[i].run_id \in 1..Len(db_runs')
  /\ db_runs'[inv[i].run_id].status = "failed"
  /\ db_runs'[inv[i].run_id].error_message = inv[i].err
  /\ "error" \in DOMAIN db_runs'[inv[i].run_id].metadata
  /\ db_runs'[inv[i].run_id].metadata["error"] = [message |-> inv[i].err, timestamp |-> Now]
  /\ db_state'.status = "error"
  /\ store' = store

C11_WriteFailureFailsRun ==
  \A i \in Invocations :
    (inv[i].write_failed /\ inv[i].run_id # NoId)
      => db_runs[inv[i].run_id].status # "completed"

\* C12: once a run row has status completed or failed, no later call
\* changes the row.
C12_FinalizedRowFrozen ==
  [][\A r \in 1..Len(db_runs) :
       db_runs[r].status \in {"completed", "failed"} => db_runs'[r] = db_runs[r]]_vars

RECURSIVE Flatten(_)
\* the batches of a sequence of batches, one after another
Flatten(bs) == IF bs = <<>> THEN <<>> ELSE Head(bs) \o Flatten(Tail(bs))

\* the queue without its sentinel
Items(q) == SeqFilter(q, Range(q) \ {Sentinel})

\* C13: the writer hands every item put on the write queue before the
\* sentinel to write_batch exactly once and in order; it hands over a batch
\* whenever batch_size items have accumulated, no batch is larger, and on
\* the sentinel it hands over the last partial batch and ends.
C13_WriterHandsEveryItemOnce ==
  LET wr == writer[1] IN
  /\ \A b \in 1..Len(wr.handed) : Len(wr.handed[b]) \in 1..batch_size
  /\ \A b \in 1..(Len(wr.handed) - 1) : Len(wr.handed[b]) = batch_size
  /\ wr.pc = "waiting" => Len(wr.batch) < batch_size
  /\ Flatten(wr.handed) \o wr.batch \o Items(wr.queue) = [k \in 1..harness.put |-> k]
  /\ wr.pc = "done" =>
       /\ harness.sentinel
       /\ wr.batch = <<>>
       /\ Flatten(wr.handed) = [k \in 1..harness.put |-> k]

\* The writer has ended after full batches and a last partial one.
C13_Witness ==
  LET wr == writer[1] IN
  /\ wr.pc = "done"
  /\ Len(wr.handed) >= 2
  /\ Len(wr.handed[Len(wr.handed)]) < batch_size
  /\ Len(wr.handed[1]) = batch_size

----------------------------------------------------------------------------
(* Properties of the cache                                                 *)

\* C14: size() never exceeds max_size, and a set of a new key on a full
\* cache evicts exactly one entry, one with the smallest created_at among
\* the entries present before the insert; every other set evicts nothing.
C14_EvictsOldest ==
  /\ [](harness.pc = "cache" => mc_size(cache) <= harness.max_size)
  /\ [][harness'.op = "set" =>
          IF harness'.full
            THEN \E k \in 1..Len(cache) :
                   /\ \A j \in 1..Len(cache) : cache[k].created_at <= cache[j].created_at
                   /\ CacheKeys(cache') = (CacheKeys(cache) \ {cache[k].key}) \cup {harness'.key}
                   /\ Len(cache') = Len(cache)
                   /\ \A j \in 1..Len(cache) :
                        j # k => \E n \in 1..Len(cache') : cache'[n] = cache[j]
            ELSE CacheKeys(cache') = CacheKeys(cache) \cup {harness'.key}]_vars

\* max_size = 2, ttl = 0: after set 1, set 2, set 3 the last set found the
\* cache full, keys 2 and 3 are present, key 1 is absent and the size is 2
C14_Witness ==
  /\ harness.pc = "cache" /\ harness.op = "set" /\ harness.full
  /\ harness.max_size = 2 /\ harness.ttl = 0 /\ harness.key = 3
  /\ CacheKeys(cache) = {2, 3}
  /\ mc_size(cache) = 2

\* what an exists or get call reported: the key is present
ReportedPresent(h) == IF h.op = "exists" THEN h.ret.b ELSE h.ret.v # Null

\* C15: with ttl = T > 0, a key whose entry was set at time t (and not set
\* again, deleted, evicted or cleared since) is reported present by exists
\* and get at every time t' with t <= t' < t + T and absent at every
\* t' >= t + T.
C15_PresentUntilExpiry ==
  [][(/\ harness'.op \in {"exists", "get"}
      /\ harness.ttl > 0
      /\ harness'.key \in CacheKeys(cache))
       => LET e == cache[CacheIndex(cache, harness'.key)]
          IN ReportedPresent(harness') = (proc.time < e.created_at + harness.ttl)]_vars

\* exists(key) would answer True at time t
Present(c, key, t, ttl) ==
  \E k \in 1..Len(c) : c[k].key = key /\ ~(ttl > 0 /\ t > c[k].expires_at)

\* C16: filter_non_existing(keys) returns exactly the subsequence of keys,
\* in input order, for which exists is false; a key set by the call just
\* before is excluded, a key never set is included.
C16_FilterReturnsAbsentKeys ==
  [][harness'.op = "filter" =>
       LET keys == harness'.keys
           out == harness'.ret.out
       IN /\ out = SeqFilter(keys, {key \in KeySet :
                                      ~Present(cache, key, proc.time, harness.ttl)})
          /\ harness.op = "set" => harness.key \notin Range(out)
          /\ \A key \in Range(keys) \ harness.ever_set : key \in Range(out)]_vars

\* filter_non_existing(<<k, n>>) with k present and n never set returns <<n>>
C16_Witness ==
  /\ harness.pc = "cache" /\ harness.op = "filter"
  /\ Len(harness.keys) = 2
  /\ harness.keys[1] \in CacheKeys(cache)
  /\ harness.keys[2] \notin harness.ever_set
  /\ harness.ret.out = <<harness.keys[2]>>

\* C17: every cache call takes effect atomically with respect to every
\* other call: the list a filter_non_existing call returned holds exactly
\* the keys absent from the cache at one instant between call and return.
C17_FilterSeesOneInstant ==
  (harness.pc = "threads" /\ harness.fpc = "returned") =>
    \E snap \in harness.snaps :
      harness.out = SeqFilter(harness.keys, KeySet \ snap)

----------------------------------------------------------------------------
(* Properties of the scaling pool                                          *)

\* C18 as stated: min_workers <= active_workers <= max_workers in every
\* reachable state of a pool, from construction on.
C18_ActiveWithinBounds ==
  /\ ScalePool.min_workers <= ScalePool.active_workers
  /\ ScalePool.active_workers <= ScalePool.max_workers

\* C18, amended: 0 <= active_workers <= max_workers in every state, and
\* from the return of start() on active_workers is at least the smaller
\* of min_workers and max_workers.
C18_ActiveWithinBoundsOnceStarted ==
  /\ 0 <= ScalePool.active_workers
  /\ ScalePool.active_workers <= ScalePool.max_workers
  /\ harness.pc # "new" =>
       Min(ScalePool.min_workers, ScalePool.max_workers) <= ScalePool.active_workers

\* stop() has returned for a pool that grew above min_workers and was
\* scaled down to it again
C18_Witness ==
  /\ harness.op = "remove" /\ harness.ret
  /\ harness.pc = "stopped"
  /\ harness.scaler = "done"
  /\ ScalePool.min_workers = 1
  /\ ScalePool.active_workers = ScalePool.min_workers
  /\ Len(ScalePool.workers) = ScalePool.max_workers
  /\ Len(ScalePool.workers) > ScalePool.active_workers

\* C19: add_worker() launches one more worker and returns True if and only
\* if active_workers < max_workers before the call; otherwise it launches
\* nothing and returns False.
C19_AddWorkerIffBelowMax ==
  [][(harness'.calls # harness.calls /\ harness'.op = "add") =>
       IF ScalePool.active_workers < ScalePool.max_workers
         THEN /\ harness'.ret
              /\ Len(ScalePool'.workers) = Len(ScalePool.workers) + 1
         ELSE /\ ~harness'.ret
              /\ ScalePool'.workers = ScalePool.workers]_vars

\* C20: remove_worker() lowers active_workers by one and returns True only
\* when active_workers > min_workers, otherwise it returns False and
\* changes nothing; the worker tasks, the items they hold and the queue
\* are as before the call.
C20_RemoveWorkerOnlyLowersCount ==
  [][(harness'.calls # harness.calls /\ harness'.op = "remove") =>
       /\ IF ScalePool.active_workers > ScalePool.min_workers
            THEN /\ harness'.ret
                 /\ ScalePool'.active_workers = ScalePool.active_workers - 1
            ELSE /\ ~harness'.ret
                 /\ ScalePool'.active_workers = ScalePool.active_workers
       /\ ScalePool' = [ScalePool EXCEPT !.active_workers = ScalePool'.active_workers]
       /\ writer' = writer]_vars

\* remove_worker() has returned True while a worker holds an item and
\* another waits
C20_Witness ==
  /\ harness.op = "remove" /\ harness.ret
  /\ ScalePool.active_workers < Len(ScalePool.workers)
  /\ \E w \in 1..Len(ScalePool.workers) :
       ScalePool.workers[w].pc = "processing" /\ ScalePool.workers[w].item # NoId
  /\ \E w \in 1..Len(ScalePool.workers) : ScalePool.workers[w].pc = "waiting"
  /\ ScalePool.taken # <<>>
  /\ ~ScalePool.should_stop

\* the last two throughput samples are non-decreasing
NonDecreasing(history) ==
  Len(history) >= 2 => history[Len(history)] >= history[Len(history) - 1]

\* the step called add_worker or remove_worker
CalledIn(h, g, op) == g.calls # h.calls /\ g.op = op

\* C21: on each auto-scaling tick, a CPU sample above cpu_threshold_high
\* makes the pool call remove_worker(); else a sample below
\* cpu_threshold_low with the last two throughput samples non-decreasing
\* makes it call add_worker(); in every other case the worker count is
\* left unchanged.
C21_ScalingPolicy ==
  [][harness'.ticks # harness.ticks =>
       IF harness'.cpu = "high"
         THEN CalledIn(harness, harness', "remove")
       ELSE IF harness'.cpu = "low" /\ NonDecreasing(harness'.throughput_history)
         THEN CalledIn(harness, harness', "add")
       ELSE /\ harness'.calls = harness.calls
            /\ ScalePool'.active_workers = ScalePool.active_workers
            /\ ScalePool'.workers = ScalePool.workers]_vars

----------------------------------------------------------------------------
(* Properties of the fetching loop                                         *)

\* the survivors of the dedup filter whose record satisfies keep
Survivors(keep(_)) ==
  SeqFilter(harness.survivors,
            {id \in Range(harness.survivors) : keep(harness.src[id])})

\* C22: every survivor of the dedup filter that has an email address is
\* put on both the location queue and the referrer queue, and a survivor
\* is put on the LinkedIn queue if and only if the gating predicate holds
\* for it.
C22_SurvivorsFannedOut ==
  LET HasEmail(sub) == sub.email_address
      Gated(sub) == sub.email_address /\ linkedin_gate(sub)
  IN /\ pool[1]["location"].queue = Survivors(HasEmail)
     /\ pool[1]["referrer"].queue = Survivors(HasEmail)
     /\ pool[1]["linkedin"].queue = Survivors(Gated)

C24_StopsOnlyAtEndOrLimit ==
  harness.pc = "returned" =>
    \/ harness.source_done
    \/ harness.processed_count >= harness.max_limit

\* C24, the part on termination: the fetching loop eventually terminates,
\* also after a page handling has raised (it holds under FairSpecFetch)
FetchTerminates == <>(harness.pc = "returned")

\* the loop stops as C24 says unless a fetch was answered with an error
StopsAtEndOrLimitUnlessError ==
  harness.stop # "error_response" => C24_StopsOnlyAtEndOrLimit

\* the queues hold what C22 says as long as no page handling has raised
FannedOutUnlessRaised == ~harness.raised => C22_SurvivorsFannedOut

----------------------------------------------------------------------------
(* Properties of the batch upsert                                          *)

\* C25: after any sequence of write batches the table holds at most one
\* row per id, and applying the batch just written once more leaves the
\* table as it is; a batch whose transaction fails changes nothing.
C25_UpsertIdempotent ==
  /\ [](harness.pc = "upsert" =>
          \A j, k \in 1..Len(store) : store[j].id = store[k].id => j = k)
  /\ [][harness'.writes # harness.writes =>
          IF harness'.ok
            THEN bulk_update_or_create(store', harness'.batch, TRUE) = store'
            ELSE store' = store]_vars

\* the same record has arrived from two stages in two batches, one of
\* them holding it twice: one row with both columns filled
C25_Witness ==
  /\ harness.pc = "upsert" /\ harness.ok
  /\ Len(harness.batch) = 2
  /\ harness.batch[1].id = harness.batch[2].id
  /\ Len(store) = 1
  /\ store[1].fields["location"] # Null
  /\ store[1].fields["referrer"] # Null

----------------------------------------------------------------------------
(* The run lifecycle of the manager (db/state.py)                          *)

\* run_pipeline's call of complete_run by invocation i with an active run
CompleteRunCalled(i) ==
  /\ inv[i].pc = "await_writer"
  /\ inv'[i].pc \in {"returned", "except"}
  /\ mgr.current_run_id # NoId

\* the state complete_run is to leave for run r
Completed(r) ==
  /\ db_runs'[r].status = "completed"
  /\ db_runs'[r].end_time
  /\ db_state'.status = "idle"
  /\ mgr'.current_run_id = NoId

\* C26: complete_run on the active run sets the run row to completed with
\* an end_time and the pipeline status to idle, and afterwards the manager
\* has no active run and is_pipeline_running() (status = running) is false.
C26_CompleteRunFinalizes ==
  [][\A i \in Invocations :
       CompleteRunCalled(i) => Completed(mgr.current_run_id)]_vars

\* The same for the calls during which no statement of the store fails.
CompleteRunFinalizesUnlessFault ==
  [][\A i \in Invocations :
       (CompleteRunCalled(i) /\ proc'.faults = proc.faults)
         => Completed(mgr.current_run_id)]_vars

----------------------------------------------------------------------------
(* A caller of the manager's interface: start_run, update_progress,        *)
(* complete_run and fail_run in any order, with metadata over a few keys,  *)
(* while statements of the store may fail.                                 *)

MaxRuns == 2             \* runs started
MaxMetaCalls == 4        \* calls of the manager
MetaKeys == {"a", "b"}
MetaVals == {"x", "y"}

\* the dicts a caller passes as metadata or metadata_updates
MetaDicts == UNION {[D -> MetaVals] : D \in SUBSET MetaKeys}

MetaInit ==
  /\ db_state = NoRow
  /\ db_runs = <<>>
  /\ store = {}
  /\ mgr = NewMgr
  /\ cache = <<>>
  /\ proc = [restarts |-> 0, should_stop |-> FALSE, time |-> 0, faults |-> 0]
  /\ inv = [i \in Invocations |-> NoInv]
  /\ pool = [i \in Invocations |-> NoPools]
  /\ writer = [i \in Invocations |-> NoWriter]
  /\ harness = [pc |-> "meta", calls |-> 0, op |-> "none", updates |-> NoMeta,
                ret |-> "None"]

\* what a call of the manager leaves
MetaCall(op, updates, res, cost) ==
  /\ harness.calls < MaxMetaCalls
  /\ proc.faults + cost <= MaxFaults
  /\ proc' = [proc EXCEPT !.faults = @ + cost]
  /\ mgr' = res.mgr
  /\ db_runs' = res.runs
  /\ db_state' = res.st
  /\ harness' = [harness EXCEPT !.calls = @ + 1, !.op = op, !.updates = updates,
                                !.ret = res.ret]
  /\ UNCHANGED <<store, cache, inv, pool, writer>>

MetaStart ==
  /\ Len(db_runs) < MaxRuns
  /\ \E md \in MetaDicts, fc \in CreateRunFaults, fg \in GetStateFaults :
       MetaCall("start_run", md, start_run(mgr, db_runs, db_state, md, fc, fg),
                Cost(fc) + Cost(fg))

MetaProgress ==
  \E md \in MetaDicts, n \in {NoCount, 1}, fr \in UpdateRunFaults, fs \in UpdateStateFaults :
    MetaCall("update_progress", md,
             update_progress(mgr, db_runs, db_state, n, NoId, md, fr, fs),
             Cost(fr) + Cost(fs))

MetaComplete ==
  \E md \in MetaDicts, fr \in UpdateRunFaults, fs \in UpdateStateFaults :
    MetaCall("complete_run", md,
             complete_run(mgr, db_runs, db_state, NoCount, NoId, md, fr, fs),
             Cost(fr) + Cost(fs))

MetaFail ==
  \E md \in MetaDicts, fr \in UpdateRunFaults, fs \in UpdateStateFaults :
    MetaCall("fail_run", md,
             fail_run(mgr, db_runs, db_state, ErrStore, NoCount, md, fr, fs),
             Cost(fr) + Cost(fs))

MetaNext ==
  \/ MetaStart
  \/ MetaProgress
  \/ MetaComplete
  \/ MetaFail

SpecMeta == MetaInit /\ [][MetaNext]_vars

\* the keys a call of the manager supplies
Supplied(h) ==
  DOMAIN h.updates \cup (IF h.op = "fail_run" THEN {"error"} ELSE {})

\* every key of the stored metadata of a run is kept by a call
KeysKept ==
  \A r \in 1..Len(db_runs) :
    DOMAIN db_runs[r].metadata \subseteq DOMAIN db_runs'[r].metadata

\* a stored value changes only under a key the call supplies
ChangedOnlyIfSupplied ==
  \A r \in 1..Len(db_runs) :
    \A k \in DOMAIN db_runs[r].metadata \cap DOMAIN db_runs'[r].metadata :
      db_runs'[r].metadata[k] # db_runs[r].metadata[k] => k \in Supplied(harness')

\* C27: run metadata is merged, never replaced: every key a run's stored
\* metadata has before a call of update_progress, complete_run or fail_run
\* it has afterwards, and its value changes only when the call supplies the
\* key.
C27_MetadataMerged ==
  [][harness'.calls # harness.calls => KeysKept /\ ChangedOnlyIfSupplied]_vars

\* No call removes a key, whatever fails.
MetadataKeysKept == [][harness'.calls # harness.calls => KeysKept]_vars

\* The values too follow the call's keys while no statement of the store fails.
MetadataMergedUnlessFault ==
  [][(harness'.calls # harness.calls /\ proc'.faults = 0)
       => KeysKept /\ ChangedOnlyIfSupplied]_vars

----------------------------------------------------------------------------
(* A stage worker and its collaborator: a stand-alone location pool whose  *)
(* process_item meets every answer of the collaborator.  The write queue   *)
(* holds [id, enriched] for each item handed on.                           *)

MaxWorkItems == 2        \* items enqueued
MaxRetries == 1          \* 429 answers over the whole behaviour

\* What process_item meets: a 200 answer; a timeout of session.get; another
\* exception of the request or of the parsing; a status other than 200 and
\* 429; status 429; an exception outside its try block or in copy()/put().
Outcomes == {"ok", "timeout", "error", "status", "rate_limited", "raise"}

\* LocationPipeline.process_item: the fields are added on a 200 answer only;
\* every exception inside the try block is logged and the subscriber is
\* returned as it came; 429 sleeps and calls process_item again.
process_item(outcome) ==
  CASE outcome = "ok" -> [ret |-> "return", enriched |-> TRUE, logged |-> FALSE]
    [] outcome \in {"timeout", "error", "status"} ->
         [ret |-> "return", enriched |-> FALSE, logged |-> TRUE]
    [] outcome = "rate_limited" -> [ret |-> "retry", enriched |-> FALSE, logged |-> FALSE]
    [] OTHER -> [ret |-> "raise", enriched |-> FALSE, logged |-> FALSE]

\* worker_func without its except clauses
after_item_NoCatch(pl, ret) == IF ret = "raise" THEN "raised" ELSE loop_check(pl)

\* worker_func after process_item: `except Exception` logs what was raised,
\* and the loop condition is tested again.
after_item(pl, ret) == loop_check(pl)

ItemPool == pool[1]["location"]

ItemInit ==
  /\ db_state = NoRow
  /\ db_runs = <<>>
  /\ store = {}
  /\ mgr = NoMgr
  /\ cache = <<>>
  /\ proc = [restarts |-> 0, should_stop |-> FALSE, time |-> 0, faults |-> 0]
  /\ inv = [i \in Invocations |-> NoInv]
  /\ pool = [i \in Invocations |-> [p \in Stages |->
               IF i = 1 /\ p = "location" THEN NewPool(PoolWorkers, PoolWorkers) ELSE NoPool]]
  /\ writer = [i \in Invocations |-> NoWriter]
  /\ harness = [pc |-> "new", put |-> 0, sentinel |-> FALSE, sentinel_before_stop |-> FALSE,
                done |-> 0, retries |-> 0, logged |-> 0,
                last |-> [w |-> 0, id |-> NoId, outcome |-> "none"]]

\* queue.put(subscriber) before the sentinel
ItemPut ==
  /\ harness.pc \in {"new", "started"}
  /\ ~harness.sentinel
  /\ harness.put < MaxWorkItems
  /\ pool' = [pool EXCEPT ![1]["location"].queue = Append(@, harness.put + 1)]
  /\ harness' = [harness EXCEPT !.put = @ + 1]
  /\ UNCHANGED <<db_state, db_runs, store, mgr, cache, proc, inv, writer>>

\* worker_func from `await process_item(subscriber)` to the loop condition:
\* the copy of what process_item returned goes to the write queue; what it
\* raised is logged; a 429 answer leaves the worker inside process_item.
ItemProcess(w) ==
  /\ w \in 1..Len(ItemPool.workers)
  /\ ItemPool.workers[w].pc = "processing"
  /\ \E outcome \in Outcomes :
       LET r == process_item(outcome)
           id == ItemPool.workers[w].item
       IN
       IF r.ret = "retry"
         THEN /\ harness.retries < MaxRetries
              /\ harness' = [harness EXCEPT !.retries = @ + 1]
              /\ UNCHANGED <<pool, writer>>
         ELSE /\ pool' = [pool EXCEPT
                            ![1]["location"].workers[w] =
                               [pc |-> after_item(ItemPool, r.ret), item |-> NoId],
                            ![1]["location"].processed_count =
                               IF r.ret = "return" THEN @ + 1 ELSE @]
              /\ writer' = IF r.ret = "return"
                             THEN [writer EXCEPT
                                     ![1].queue = Append(@, [id |-> id, enriched |-> r.enriched])]
                             ELSE writer
              /\ harness' = [harness EXCEPT
                               !.done = @ + 1,
                               !.logged = IF r.logged \/ r.ret = "raise" THEN @ + 1 ELSE @,
                               !.last = [w |-> w, id |-> id, outcome |-> outcome]]
  /\ UNCHANGED <<db_state, db_runs, store, mgr, cache, proc, inv>>

ItemWorker ==
  \E w \in 1..PoolWorkers :
    \/ WorkerBegin(1, "location", w)
    \/ WorkerGet(1, "location", w)
    \/ WorkerTimeout(1, "location", w)
    \/ ItemProcess(w)

ItemNext ==
  \/ PoolStart
  \/ ItemPut
  \/ PoolPutSentinel
  \/ PoolStop
  \/ PoolStopReturn
  \/ ItemWorker

SpecItem == ItemInit /\ [][ItemNext]_vars

\* the outcomes that are failures of one item
Failures == {"timeout", "error", "status", "raise"}

\* C28: a failure while one item is processed (an exception, a timeout of
\* the collaborator) ends no worker and leaves no worker task with an
\* exception: it is logged, the worker tests its loop condition and waits
\* for the next item, and after a timeout the item goes on to the write
\* queue without the fields of the stage.
C28_ItemFailureContained ==
  /\ [](\A w \in 1..Len(ItemPool.workers) : ItemPool.workers[w].pc # "raised")
  /\ [][(harness'.done # harness.done /\ harness'.last.outcome \in Failures) =>
          /\ ItemPool'.workers[harness'.last.w].pc =
               (IF ItemPool.should_stop THEN "done" ELSE "waiting")
          /\ harness'.logged = harness.logged + 1
          /\ harness'.last.outcome = "timeout" =>
               writer'[1].queue =
                 Append(writer[1].queue, [id |-> harness'.last.id, enriched |-> FALSE])]_vars

\* a worker that met a timeout and then an exception is waiting for the
\* next item, the item of the timeout is on the write queue
C28_Witness ==
  /\ harness.done = 2
  /\ harness.logged = 2
  /\ harness.last.outcome = "raise"
  /\ ~ItemPool.should_stop
  /\ ItemPool.workers[harness.last.w].pc = "waiting"
  /\ writer[1].queue = <<[id |-> 1, enriched |-> FALSE]>>

----------------------------------------------------------------------------
(* stop() of the stand-alone pool                                          *)

\* C29: after stop() a worker that is processing an item keeps it until
\* process_item has ended (the copy is handed on or the exception logged)
\* and then exits, and stop() returns in the end, whether or not a sentinel
\* was put on the queue: a worker waiting at an empty queue tests the stop
\* event when the wait times out.
C29_StopLetsWorkersFinish ==
  /\ [][\A w \in 1..Len(ThePool.workers) :
          (ThePool.should_stop /\ ThePool.workers[w].pc = "processing"
             /\ ThePool'.workers[w] # ThePool.workers[w])
            => /\ ThePool'.workers[w].pc = "done"
               /\ \/ writer'[1].queue = Append(writer[1].queue, ThePool.workers[w].item)
                  \/ writer' = writer]_vars
  /\ (harness.pc = "stopping") ~> (harness.pc = "stopped")

\* stop() has returned with no sentinel ever put, after a worker had taken
\* an item and another had waited at the empty queue
C29_Witness ==
  /\ harness.pc = "stopped"
  /\ ~harness.sentinel
  /\ all_done(ThePool)
  /\ ThePool.queue = <<>>
  /\ Len(ThePool.taken) = 1

----------------------------------------------------------------------------
(* The subscriber dicts as objects: process_subscribers puts one dict on   *)
(* the stage queues, each stage worker hands it to process_item, which     *)
(* writes the fields of its stage into it, and puts a copy on the write    *)
(* queue.  A queue entry is the number of the dict (a reference).          *)

NumObjs == 2

Objs == 1..NumObjs

\* the writers of a dict
Fetcher == "fetcher"

\* the stages a dict is with: on their queue or in the hands of their worker
held_by(pls, o) ==
  {p \in Stages :
     \/ \E k \in 1..Len(pls[p].queue) : pls[p].queue[k] = o
     \/ \E w \in 1..Len(pls[p].workers) :
          pls[p].workers[w].item = o /\ pls[p].workers[w].pc # "done"}

OwnInit ==
  /\ db_state = NoRow
  /\ db_runs = <<>>
  /\ store = {}
  /\ mgr = NoMgr
  /\ cache = <<>>
  /\ proc = [restarts |-> 0, should_stop |-> FALSE, time |-> 0, faults |-> 0]
  /\ inv = [i \in Invocations |-> NoInv]
  /\ pool = [i \in Invocations |-> [p \in Stages |->
               IF i = 1 THEN start(NewPool(StageWorkers, StageWorkers)) ELSE NoPool]]
  /\ writer = [i \in Invocations |-> NoWriter]
  /\ harness = [pc |-> "own", next |-> 1, writes |-> 0,
                fields |-> [o \in Objs |-> {}],
                last |-> [by |-> "none", obj |-> NoId, held |-> {}]]

\* process_subscribers, one round of the queueing loop: the dict goes on the
\* location and the referrer queue, email_domain_type is written into it,
\* and a work email that passes the gate goes on the LinkedIn queue.  The
\* queues are unbounded: no put suspends the fetcher.
OwnEnqueue ==
  /\ harness.next <= NumObjs
  /\ \E linkedin \in BOOLEAN :
       LET o == harness.next
           p1 == [pool[1] EXCEPT !["location"].queue = Append(@, o),
                                 !["referrer"].queue = Append(@, o)]
           p2 == IF linkedin THEN [p1 EXCEPT !["linkedin"].queue = Append(@, o)] ELSE p1
       IN
       /\ pool' = [pool EXCEPT ![1] = p2]
       /\ harness' = [harness EXCEPT
                        !.next = @ + 1,
                        !.writes = 1 - @,
                        !.fields[o] = @ \cup {Fetcher},
                        !.last = [by |-> Fetcher, obj |-> o, held |-> held_by(p1, o)]]
  /\ UNCHANGED <<db_state, db_runs, store, mgr, cache, proc, inv, writer>>

\* process_item of stage p after its request has been answered: the fields
\* of the stage are written into the dict the worker was handed.
OwnWrite(p) ==
  LET wk == pool[1][p].workers[1]
      o == wk.item
  IN
  /\ wk.pc = "processing"
  /\ pool' = [pool EXCEPT ![1][p].workers[1].pc = "written"]
  /\ harness' = [harness EXCEPT
                   !.writes = 1 - @,
                   !.fields[o] = @ \cup {p},
                   !.last = [by |-> p, obj |-> o, held |-> held_by(pool[1], o)]]
  /\ UNCHANGED <<db_state, db_runs, store, mgr, cache, proc, inv, writer>>

\* worker_func after process_item has returned: a shallow copy of the dict
\* goes on the write queue; task_done and the loop condition.
OwnCopy(p) ==
  LET wk == pool[1][p].workers[1] IN
  /\ wk.pc = "written"
  /\ pool' = [pool EXCEPT
                ![1][p].workers[1] = [pc |-> loop_check(pool[1][p]), item |-> NoId],
                ![1][p].processed_count = @ + 1]
  /\ writer' = [writer EXCEPT
                  ![1].queue = Append(@, [id |-> wk.item, fields |-> harness.fields[wk.item]])]
  /\ UNCHANGED <<db_state, db_runs, store, mgr, cache, proc, inv, harness>>

OwnWorker(p) ==
  \/ WorkerBegin(1, p, 1)
  \/ WorkerGet(1, p, 1)
  \/ WorkerTimeout(1, p, 1)
  \/ OwnWrite(p)
  \/ OwnCopy(p)

OwnNext ==
  \/ OwnEnqueue
  \/ \E p \in Stages : OwnWorker(p)

SpecOwn == OwnInit /\ [][OwnNext]_vars

\* C30: a dict is with one stage at a time: when the fetcher writes to a
\* dict it has not put it on a stage queue before, and when the worker of a
\* stage writes to a dict no other stage has it on its queue or in the
\* hands of its worker.
C30_OneOwnerAtATime ==
  [][harness'.writes # harness.writes => harness'.last.held \ {harness'.last.by} = {}]_vars

\* The second half taken alone: a worker writes to a dict no other stage
\* holds.  It fails as well.
StagesWriteAlone ==
  [][(harness'.writes # harness.writes /\ harness'.last.by # Fetcher)
       => harness'.last.held \ {harness'.last.by} = {}]_vars

\* The first half taken alone: the fetcher writes to dicts that are on no
\* queue.  It fails as well.
FetcherWritesBeforePut ==
  [][(harness'.writes # harness.writes /\ harness'.last.by = Fetcher)
       => harness'.last.held = {}]_vars

----------------------------------------------------------------------------
(* The semaphore of a stage pipeline (pipelines/base.py) and the workers   *)
(* of the stage inside process_item.  harness.value is the number of free  *)
(* permits, harness.held[w] the permits of the item worker w is enriching. *)

max_concurrent == 2      \* FetchPipeline(max_concurrent=20)
SemWorkers == 2          \* workers of the stage
MaxSemItems == 2         \* items a worker enriches
MaxAnswers429 == 2       \* 429 answers to one worker

SemInit ==
  /\ db_state = NoRow
  /\ db_runs = <<>>
  /\ store = {}
  /\ mgr = NoMgr
  /\ cache = <<>>
  /\ proc = [restarts |-> 0, should_stop |-> FALSE, time |-> 0, faults |-> 0]
  /\ inv = [i \in Invocations |-> NoInv]
  /\ pool = [i \in Invocations |-> NoPools]
  /\ writer = [i \in Invocations |-> NoWriter]
  /\ harness = [pc |-> [w \in 1..SemWorkers |-> "idle"],
                value |-> max_concurrent,
                held |-> [w \in 1..SemWorkers |-> 0],
                items |-> [w \in 1..SemWorkers |-> 0],
                answers429 |-> [w \in 1..SemWorkers |-> 0]]

\* worker_func hands the next subscriber to process_item
SemProcessItem(w) ==
  /\ harness.pc[w] = "idle"
  /\ harness.items[w] < MaxSemItems
  /\ harness' = [harness EXCEPT !.pc[w] = "acquire", !.items[w] = @ + 1]
  /\ UNCHANGED <<db_state, db_runs, store, mgr, cache, proc, inv, pool, writer>>

\* `async with self.semaphore:` is entered when a permit is free
SemAcquire(w) ==
  /\ harness.pc[w] = "acquire"
  /\ harness.value > 0
  /\ harness' = [harness EXCEPT !.pc[w] = "request", !.value = @ - 1, !.held[w] = @ + 1]
  /\ UNCHANGED <<db_state, db_runs, store, mgr, cache, proc, inv, pool, writer>>

\* The collaborator answers.  On 429 process_item sleeps and calls itself
\* inside the `async with` block; on any other answer or exception it
\* returns, and so does every call of process_item that is waiting for it,
\* each leaving its `async with` block.
SemAnswer(w) ==
  /\ harness.pc[w] = "request"
  /\ \E rate_limited \in BOOLEAN :
       IF rate_limited
         THEN /\ harness.answers429[w] < MaxAnswers429
              /\ harness' = [harness EXCEPT !.pc[w] = "acquire", !.answers429[w] = @ + 1]
         ELSE harness' = [harness EXCEPT !.pc[w] = "idle",
                                         !.value = @ + harness.held[w],
                                         !.held[w] = 0]
  /\ UNCHANGED <<db_state, db_runs, store, mgr, cache, proc, inv, pool, writer>>

SemNext ==
  \E w \in 1..SemWorkers :
    \/ SemProcessItem(w)
    \/ SemAcquire(w)
    \/ SemAnswer(w)

SpecSem == SemInit /\ [][SemNext]_vars

\* every worker of the stage waits for a permit and none is free
AllBlocked ==
  /\ harness.value = 0
  /\ \A w \in 1..SemWorkers : harness.pc[w] = "acquire"

\* C31: the enrichment of one item holds at most one permit of the stage's
\* semaphore, also while it retries after 429 answers, and the workers
\* never all wait for a permit that none of them will release.
C31_OnePermitPerItem ==
  /\ \A w \in 1..SemWorkers : harness.held[w] <= 1
  /\ ~AllBlocked

\* The first half taken alone fails after the first 429 answer.
AtMostOnePermit == \A w \in 1..SemWorkers : harness.held[w] <= 1

\* The second half taken alone fails too: the retries use up the permits.
NeverAllBlocked == ~AllBlocked

----------------------------------------------------------------------------
(* The end of fetching                                                     *)

\* the ids the fetcher has marked in the cache during this run
MarkedThisRun == Range(harness.survivors)

\* C32: when fetching has ended, every id the fetcher marked in the dedup
\* cache during the run, and whose record has an email address, is on the
\* location queue and on the referrer queue, also after the handling of a
\* page has raised part-way through.
C32_MarkedImpliesQueued ==
  harness.pc = "returned" =>
    \A id \in MarkedThisRun :
      harness.src[id].email_address =>
        /\ id \in Range(pool[1]["location"].queue)
        /\ id \in Range(pool[1]["referrer"].queue)

\* While no page handling has raised, marking and queueing do go together.
MarkedImpliesQueuedUnlessRaised == ~harness.raised => C32_MarkedImpliesQueued

----------------------------------------------------------------------------
(* The dedup filter of one run: a source whose pages may repeat ids, the   *)
(* processed_ids of the SubscriberPipeline, the existing_subscribers of    *)
(* process_subscribers, and a cache of MaxCacheSize entries that live      *)
(* MaxTTL ticks.  Every subscriber has an email address.                   *)

MaxPages == 3            \* pages handled in the run

RECURSIVE drop_processed(_, _)
\* fetch_subscribers, the loop over the subscribers of a response: an id of
\* processed_ids is counted as a duplicate, any other is kept and added
drop_processed(page, processed_ids) ==
  IF page = <<>> THEN [new |-> <<>>, processed_ids |-> processed_ids]
  ELSE LET id == Head(page)
           dup == id \in processed_ids
           rest == drop_processed(Tail(page), processed_ids \cup {id})
       IN [new |-> IF dup THEN rest.new ELSE <<id>> \o rest.new,
           processed_ids |-> rest.processed_ids]

RECURSIVE filter_loop(_, _, _, _, _)
\* process_subscribers, the filter loop, with existing_subscribers looked
\* at (use_existing) or not; the cache has MaxCacheSize entries of MaxTTL
filter_loop(subs, existing, c, t, use_existing) ==
  IF subs = <<>> THEN [new |-> <<>>, existing |-> existing, cache |-> c]
  ELSE
    LET id == Head(subs)
        known == use_existing /\ id \in existing
        ex == IF known THEN [cache |-> c, ret |-> TRUE] ELSE mc_exists(c, id, t, MaxTTL)
        skip == known \/ ex.ret
        rest == filter_loop(Tail(subs),
                            IF skip THEN existing ELSE existing \cup {id},
                            IF skip THEN ex.cache
                            ELSE mc_set(ex.cache, id, TRUE, t, MaxCacheSize, MaxTTL),
                            t, use_existing)
    IN [new |-> IF skip THEN rest.new ELSE <<id>> \o rest.new,
        existing |-> rest.existing, cache |-> rest.cache]

\* the handling of a page with the cache as the only memory of the run
dedup_CacheOnly(page, processed_ids, existing, c, t) ==
  LET fl == filter_loop(page, existing, c, t, FALSE)
  IN [new |-> fl.new, processed_ids |-> processed_ids, existing |-> fl.existing,
      cache |-> fl.cache]

\* The handling of a page from the response to the list of new subscribers:
\* fetch_subscribers drops the ids of processed_ids, the filter loop drops
\* the ids of existing_subscribers and of the cache.
dedup(page, processed_ids, existing, c, t) ==
  LET pf == drop_processed(page, processed_ids)
      fl == filter_loop(pf.new, existing, c, t, TRUE)
  IN [new |-> fl.new, processed_ids |-> pf.processed_ids, existing |-> fl.existing,
      cache |-> fl.cache]

DedupInit ==
  /\ db_state = NoRow
  /\ db_runs = <<>>
  /\ store = {}
  /\ mgr = NoMgr
  /\ cache = <<>>
  /\ proc = [restarts |-> 0, should_stop |-> FALSE, time |-> 0, faults |-> 0]
  /\ inv = [i \in Invocations |-> NoInv]
  /\ pool = [i \in Invocations |-> [p \in Stages |->
               IF i = 1 THEN NewPool(StageWorkers, CPU_COUNT * 4) ELSE NoPool]]
  /\ writer = [i \in Invocations |-> NoWriter]
  /\ harness = [pc |-> "dedup", pages |-> 0, processed_ids |-> {}, existing |-> {},
                reoffered |-> FALSE]

\* One round of process_subscribers: a page arrives, its new subscribers
\* are marked and put on the location and the referrer queue.  reoffered
\* records that the page held an id queued before that the cache no longer
\* has.
DedupRound ==
  /\ harness.pages < MaxPages
  /\ \E page \in KeyLists \ {<<>>} :
       LET d == dedup(page, harness.processed_ids, harness.existing, cache, proc.time)
           lost == \E id \in Range(page) :
                     /\ id \in Range(pool[1]["location"].queue)
                     /\ ~mc_exists(cache, id, proc.time, MaxTTL).ret
       IN
       /\ cache' = d.cache
       /\ pool' = [pool EXCEPT ![1]["location"].queue = @ \o d.new,
                               ![1]["referrer"].queue = @ \o d.new]
       /\ harness' = [harness EXCEPT !.pages = @ + 1,
                                     !.processed_ids = d.processed_ids,
                                     !.existing = d.existing,
                                     !.reoffered = @ \/ lost]
  /\ UNCHANGED <<db_state, db_runs, store, mgr, proc, inv, writer>>

\* time passes between two pages
DedupTick ==
  /\ proc.time < MaxTime
  /\ proc' = [proc EXCEPT !.time = @ + 1]
  /\ UNCHANGED <<db_state, db_runs, store, mgr, cache, inv, pool, writer, harness>>

DedupNext ==
  \/ DedupRound
  \/ DedupTick

SpecDedup == DedupInit /\ [][DedupNext]_vars

\* no id is twice in the sequence
NoRepeats(q) == \A j, k \in 1..Len(q) : q[j] = q[k] => j = k

\* C33: within one run no id is put on the same stage queue more than
\* once, also when the id comes on several pages and the cache has evicted
\* it or let it expire in between.
C33_QueuedAtMostOnce ==
  /\ NoRepeats(pool[1]["location"].queue)
  /\ NoRepeats(pool[1]["referrer"].queue)

\* a page has brought again an id that was queued before and that the cache
\* had lost, after two ids were queued
C33_Witness ==
  /\ harness.reoffered
  /\ Len(pool[1]["location"].queue) >= 2

----------------------------------------------------------------------------
(* The shutdown of a run                                                   *)

\* no item stands behind a sentinel in the queue
NothingBehindSentinel(q) ==
  \A j, k \in 1..Len(q) : (j < k /\ q[j] = Sentinel) => q[k] = Sentinel

\* the sentinel has been put on the queue (a worker may hold it for a moment)
SentinelPut(i, p) ==
  \/ Sentinel \in Range(pool[i][p].queue)
  \/ pool[i][p].reinserted > 0

\* the order of the steps of the shutdown
ShutdownOrder ==
  \A i \in Invocations :
    /\ \A p \in Stages :
         SentinelPut(i, p) =>
           inv[i].pc \in {"stop_location", "stop_referrer", "stop_linkedin",
                          "await_writer", "except"}
    /\ (Sentinel \in Range(writer[i].queue) \/ writer[i].pc = "done") =>
         /\ inv[i].pc \in {"await_writer", "except"}
         /\ \A p \in Stages : all_done(pool[i][p])
    /\ \A p \in Stages : NothingBehindSentinel(pool[i][p].queue)
    /\ NothingBehindSentinel(writer[i].queue)

\* complete_run is called when the writer task has ended with nothing left
CompleteAfterFlush ==
  \A i \in Invocations :
    CompleteRunCalled(i) =>
      /\ writer[i].pc = "done"
      /\ writer[i].batch = <<>>
      /\ Items(writer[i].queue) = <<>>

\* when the run row becomes completed, what the workers put on the write
\* queue is in the store
CompletedMeansWritten ==
  \A i \in Invocations :
    (CompleteRunCalled(i) /\ db_runs'[mgr.current_run_id].status = "completed") =>
      Range(Flatten(writer[i].handed)) \subseteq store

\* C34: the sentinel goes on each stage queue only after fetching has
\* ended, on the write queue only after the three pools have stopped, and
\* complete_run is called only after the writer has flushed its last batch;
\* no item is enqueued behind a sentinel, and no run is marked completed
\* while results the workers handed on are not written.
C34_ShutdownOrder ==
  /\ []ShutdownOrder
  /\ [][CompleteAfterFlush /\ CompletedMeansWritten]_vars

\* The order alone, without the consequence for the store.
ShutdownOrderOnly == []ShutdownOrder /\ [][CompleteAfterFlush]_vars

----------------------------------------------------------------------------
(* What run_pipeline returns                                               *)

\* run_pipeline of invocation i ends in this step, by return or exception
Ends(i) == Live(i) /\ inv'[i].pc \in {"returned", "raised"}

\* the run the invocation started is recorded as completed
RecordedCompleted(i) ==
  /\ inv'[i].run_id # NoId
  /\ db_runs'[inv'[i].run_id].status = "completed"
  /\ db_state'.status = "idle"

\* C35: run_pipeline returns True only if the run it started is recorded
\* as completed, with the pipeline status idle; in every other outcome,
\* a failing update of the finalization included, it returns False.
C35_TrueOnlyIfCompleted ==
  [][\A i \in Invocations :
       Ends(i) =>
         IF RecordedCompleted(i)
           THEN inv'[i].pc = "returned"
           ELSE inv'[i].pc = "returned" /\ inv'[i].retval = "False"]_vars

\* The same while no statement of the store fails.
TrueOnlyIfCompletedUnlessFault ==
  [][\A i \in Invocations :
       (Ends(i) /\ proc'.faults = 0) =>
         IF RecordedCompleted(i)
           THEN inv'[i].pc = "returned"
           ELSE inv'[i].pc = "returned" /\ inv'[i].retval = "False"]_vars

\* The first half taken alone: True is returned for a completed run only.
\* It fails when complete_run returns False.
TrueImpliesCompleted ==
  [][\A i \in Invocations :
       (Ends(i) /\ inv'[i].pc = "returned" /\ inv'[i].retval = "True")
         => RecordedCompleted(i)]_vars

----------------------------------------------------------------------------
(* Runs after a failed run                                                 *)

\* invocation i takes the step from pc a with no statement of the store failing
Steps(i, a) ==
  /\ inv[i].pc = a
  /\ inv'[i].pc \notin {a, "cancelled", "dead"}
  /\ proc'.faults = proc.faults

\* C36: a failed run does not block later runs.  While the pipeline status
\* is error, is_pipeline_running() is false: the next run_pipeline passes
\* the check and starts a new run, which sets the status to running, and to
\* idle when it completes (the statements of the store succeeding).
C36_ErrorDoesNotBlock ==
  [][\A i \in Invocations :
       /\ (Steps(i, "check") /\ db_state.status = "error") =>
            /\ inv'[i].pc = "get_last"
            /\ ~inv'[i].refused_running
       /\ (Steps(i, "start_run") /\ db_state.status = "error") =>
            /\ Len(db_runs') = Len(db_runs) + 1
            /\ db_runs'[Len(db_runs')].status = "running"
            /\ db_state'.status = "running"
       /\ (Steps(i, "await_writer") /\ mgr.current_run_id > 1
             /\ db_runs[mgr.current_run_id - 1].status = "failed") =>
            Completed(mgr.current_run_id)]_vars

\* the run after a failed run has completed and the pipeline is idle
C36_Witness ==
  /\ Len(db_runs) = 2
  /\ db_runs[1].status = "failed"
  /\ db_runs[2].status = "completed"
  /\ db_state.status = "idle"
  /\ inv[2].pc = "returned"
  /\ inv[2].retval = "True"

----------------------------------------------------------------------------
(* One bad record in a write batch                                         *)

\* the subscriber has a row in the table
Persisted(table, sub) == \E k \in 1..Len(table) : table[k].id = sub.id

\* write_batch has handled a batch
BatchWritten == harness'.writes # harness.writes

\* C37: one record of a write batch that cannot be persisted does not keep
\* the others out of the store: after write_batch has handled a batch in
\* which one record raised, every other record of the batch has its row.
C37_BadRecordAlone ==
  [][(BatchWritten /\ ~harness'.ok) =>
       \E bad \in 1..Len(harness'.batch) :
         \A j \in 1..Len(harness'.batch) \ {bad} :
           Persisted(store', harness'.batch[j])]_vars

\* Holds: a batch no statement of which raised is in the store as a whole.
GoodBatchPersisted ==
  [][(BatchWritten /\ harness'.ok) =>
       \A j \in 1..Len(harness'.batch) : Persisted(store', harness'.batch[j])]_vars

\* Holds: a batch with a record that raised leaves the table as it was.
BadBatchRolledBack ==
  [][(BatchWritten /\ ~harness'.ok) => store' = store]_vars

----------------------------------------------------------------------------
(* The watermark across fail_run                                           *)
(* A caller of the manager's interface that passes watermarks to           *)
(* update_progress and complete_run, and any message, counter and          *)
(* metadata updates to fail_run, while statements of the store may fail.   *)

MaxLastId == 2           \* watermarks a caller passes

\* last_processed_id arguments, None included
LastIds == {NoId} \cup 1..MaxLastId

\* metadata_updates arguments of fail_run
FailDicts == {md \in MetaDicts : DOMAIN md \subseteq {"a"}}

WatermarkStart ==
  /\ Len(db_runs) < MaxRuns
  /\ \E fc \in CreateRunFaults, fg \in GetStateFaults :
       MetaCall("start_run", NoMeta, start_run(mgr, db_runs, db_state, NoMeta, fc, fg),
                Cost(fc) + Cost(fg))

WatermarkProgress ==
  \E id \in LastIds, fr \in UpdateRunFaults, fs \in UpdateStateFaults :
    MetaCall("update_progress", NoMeta,
             update_progress(mgr, db_runs, db_state, NoCount, id, NoMeta, fr, fs),
             Cost(fr) + Cost(fs))

WatermarkComplete ==
  \E id \in LastIds, fr \in UpdateRunFaults, fs \in UpdateStateFaults :
    MetaCall("complete_run", NoMeta,
             complete_run(mgr, db_runs, db_state, NoCount, id, NoMeta, fr, fs),
             Cost(fr) + Cost(fs))

WatermarkFail ==
  \E msg \in {ErrInit, ErrStore}, n \in {NoCount, 0, 1}, md \in FailDicts,
     fr \in UpdateRunFaults, fs \in UpdateStateFaults :
    MetaCall("fail_run", md,
             fail_run(mgr, db_runs, db_state, msg, n, md, fr, fs),
             Cost(fr) + Cost(fs))

WatermarkNext ==
  \/ WatermarkStart
  \/ WatermarkProgress
  \/ WatermarkComplete
  \/ WatermarkFail

SpecWatermark == MetaInit /\ [][WatermarkNext]_vars

\* a step that is a call of fail_run
FailRunCalled == harness'.calls # harness.calls /\ harness'.op = "fail_run"

\* C38: fail_run leaves the persisted watermark as it is:
\* pipeline_state.last_processed_id after the call equals its value before
\* the call, whatever message, counter or metadata updates are passed.
C38_FailRunKeepsWatermark ==
  [][FailRunCalled => db_state'.last_processed_id = db_state.last_processed_id]_vars

\* fail_run has recorded the failure of a run while the persisted watermark
\* is set and differs from the one the manager holds
C38_Witness ==
  /\ harness.op = "fail_run"
  /\ harness.ret = "True"
  /\ db_state.status = "error"
  /\ db_state.last_processed_id # NoId
  /\ mgr.last_processed_id \notin {NoId, db_state.last_processed_id}

============================================================================
